---- MODULE Spec2Model ----
(***************************************************************************)
(* Makora's on-ledger programs as state machines over one ledger:          *)
(* programs/makora_privacy, the shielded pool (init_pool, shield,          *)
(* unshield) and the stealth-payment escrow (send_stealth, claim_stealth); *)
(* programs/makora_vault, the per-owner vault and its agent sessions;      *)
(* programs/makora_strategy, the strategy account and its audit trail;     *)
(* programs/makora_confidential, the encrypted swap orders.                *)
(*                                                                         *)
(* Every instruction is one atomic transaction of the host ledger: the     *)
(* account constraints of its #[derive(Accounts)] struct run first, then   *)
(* the handler; an error at any point discards every write made so far.    *)
(* The model keeps the working copy of the accounts through both phases    *)
(* and commits it only on Ok (Commit).                                     *)
(*                                                                         *)
(* `last` is the status of the most recently processed transaction         *)
(* (instruction, arguments, result); Retire drops it once it was read.     *)
(***************************************************************************)
EXTENDS Integers, FiniteSets, Sequences, TLC

VARIABLES
    pool,              \* authority -> ShieldedPool account, or NoAccount
    nullifier_record,  \* <<pool authority, nullifier>> -> NullifierRecord, or NoAccount
    stealth_account,   \* stealth_address -> StealthAccount, or NoAccount
    lamports,          \* account id -> balance (u64)
    clock,             \* Clock::get().unix_timestamp
    last,              \* status of the last processed transaction, or NoTx
    settled,           \* history: number of unshields that returned Ok, per (pool, nullifier)
    book,              \* history: per pool, the shields that returned Ok (their number
                       \* and the sum of their amounts) and the sum of the amounts of
                       \* the unshields that returned Ok
    claimed_out,       \* history: per stealth address, the sum paid by claims that returned Ok
    vault,             \* owner -> Vault account of makora_vault, or NoAccount
    strategy_account,  \* owner -> StrategyAccount of makora_strategy, or NoAccount
    audit_trail,       \* owner -> AuditTrail of makora_strategy, or NoAccount
    audit_log,         \* history: per owner, every entry log_action appended, oldest first
    order_book,        \* authority -> OrderBook of makora_confidential, or NoAccount
    swap_order         \* <<owner, computation id>> -> SwapOrder, or NoAccount

vars ==
    <<pool, nullifier_record, stealth_account, lamports, clock, last, settled, book,
      claimed_out, vault, strategy_account, audit_trail, audit_log, order_book, swap_order>>

\* the accounts of the vault, strategy and confidential-swap programs
other_programs == <<vault, strategy_account, audit_trail, audit_log, order_book, swap_order>>

----------------------------------------------------------------------------
(* Bounds of the model *)

\* width of the model's u64 (the program's is 64 bits)
U64Bits == 4
\* lamports every wallet starts with
InitLamports == 3
\* rent-exempt minimum charged to the payer of an `init` account
RentMin == 1
\* the clock stops advancing here
MaxTime == 1

U64_MAX == 2^U64Bits - 1

Keys == {"k1", "k2"}
\* authorities whose pool the transactions of Spec address
PoolAuthorities == {"k1"}
StealthAddrs == {"k2"}
Nullifiers == {"n1", "n2"}
ZeroRoot == "zero"
Roots == {"r1", "r2"}
Commitments == {"c1", "c2"}
EphemeralKeys == {"e1"}
ViewTags == {7}
Amounts == {0, 1, 2, U64_MAX}

\* computation ids of the confidential swap orders
ComputationIds == {"q1", "q2"}

NoKey == ""

----------------------------------------------------------------------------
(* Accounts *)

NoAccount == [exists |-> FALSE]

Wallet(k) == <<"wallet", k, "">>
PoolPda(a) == <<"pool", a, "">>
\* mutant: the escrow address is derived with the seed prefix of the pools
StealthPda_pool_seed(x) == <<"pool", x, "">>
StealthPda(x) == <<"stealth", x, "">>
NullifierPda(a, n) == <<"nullifier", a, n>>
VaultPda(k) == <<"vault", k, "">>
StrategyPda(k) == <<"strategy", k, "">>
AuditPda(k) == <<"audit", k, "">>
OrderBookPda(k) == <<"order_book", k, "">>
SwapOrderPda(k, id) == <<"swap_order", k, id>>

AccountIds ==
    {Wallet(k) : k \in Keys} \cup {PoolPda(a) : a \in Keys}
    \cup {StealthPda(x) : x \in StealthAddrs}
    \cup {NullifierPda(a, n) : a \in Keys, n \in Nullifiers}
    \cup {VaultPda(k) : k \in Keys}
    \cup {StrategyPda(k) : k \in Keys} \cup {AuditPda(k) : k \in Keys}
    \cup {OrderBookPda(k) : k \in Keys}
    \cup {SwapOrderPda(k, id) : k \in Keys, id \in ComputationIds}

State ==
    [pool |-> pool, nullifier_record |-> nullifier_record,
     stealth_account |-> stealth_account, lamports |-> lamports]

Ok(s) == [err |-> "Ok", st |-> s]
Err(e, s) == [err |-> e, st |-> s]

checked_add(a, b) == IF a + b > U64_MAX THEN -1 ELSE a + b
checked_sub(a, b) == IF a < b THEN -1 ELSE a - b

\* system_program::transfer: a debit the source cannot cover is rejected
system_transfer(s, from, to, amount) ==
    IF s.lamports[from] < amount THEN Err("InsufficientFunds", s)
    ELSE IF s.lamports[to] + amount > U64_MAX THEN Err("ArithmeticOverflow", s)
    ELSE Ok([s EXCEPT !.lamports = [@ EXCEPT ![from] = @ - amount, ![to] = @ + amount]])

\* `init`: create the account at `id`, rent paid by `payer`; an account that
\* already exists cannot be created again
init_account(s, payer, id, exists) ==
    IF exists THEN Err("AccountAlreadyInUse", s)
    ELSE system_transfer(s, payer, id, RentMin)

\* the host applies a transaction's writes only when it returns Ok
Commit(s, out) == IF out.err = "Ok" THEN out.st ELSE s

----------------------------------------------------------------------------
(* init_pool *)

ZeroPool ==
    [authority |-> NoKey, merkle_root |-> ZeroRoot, next_leaf_index |-> 0,
     total_shielded |-> 0, is_active |-> FALSE, created_at |-> 0, last_tx_at |-> 0]

\* mutant: the pool account is created or reused (init_if_needed)
InitPool_accounts_reinit(s, c) ==
    LET r == init_account(s, Wallet(c.authority), PoolPda(c.authority), FALSE)
    IN IF r.err # "Ok" THEN r
       ELSE Ok([r.st EXCEPT !.pool[c.authority] = ZeroPool])

InitPool_accounts(s, c) ==
    LET r == init_account(s, Wallet(c.authority), PoolPda(c.authority),
                          s.pool[c.authority] # NoAccount)
    IN IF r.err # "Ok" THEN r
       ELSE Ok([r.st EXCEPT !.pool[c.authority] = ZeroPool])

init_pool_handler(s, c, now) ==
    Ok([s EXCEPT !.pool[c.authority] =
          [authority |-> c.authority, merkle_root |-> ZeroRoot, next_leaf_index |-> 0,
           total_shielded |-> 0, is_active |-> TRUE, created_at |-> now,
           last_tx_at |-> now]])

init_pool(s, c, now) ==
    LET a == InitPool_accounts(s, c)
    IN IF a.err # "Ok" THEN a ELSE init_pool_handler(a.st, c, now)

----------------------------------------------------------------------------
(* shield *)

Shield_accounts(s, c) ==
    IF s.pool[c.pool] = NoAccount THEN Err("AccountNotInitialized", s)
    ELSE IF ~s.pool[c.pool].is_active THEN Err("PoolNotActive", s)
    ELSE Ok(s)

\* mutant: the leaf counter is not advanced
shield_handler_no_index(s, c, now) ==
    IF ~(c.amount > 0) THEN Err("InvalidAmount", s)
    ELSE
    LET t == system_transfer(s, Wallet(c.depositor), PoolPda(c.pool), c.amount)
    IN IF t.err # "Ok" THEN t
    ELSE
    LET total == checked_add(t.st.pool[c.pool].total_shielded, c.amount)
    IN IF total < 0 THEN Err("InvalidAmount", t.st)
    ELSE Ok([t.st EXCEPT !.pool[c.pool].total_shielded = total,
                         !.pool[c.pool].last_tx_at = now])

\* mutant: the checked additions run before the transfer
shield_handler_add_first(s, c, now) ==
    IF ~(c.amount > 0) THEN Err("InvalidAmount", s)
    ELSE
    LET total == checked_add(s.pool[c.pool].total_shielded, c.amount)
    IN IF total < 0 THEN Err("InvalidAmount", s)
    ELSE
    LET s1 == [s EXCEPT !.pool[c.pool].total_shielded = total]
        idx == checked_add(s1.pool[c.pool].next_leaf_index, 1)
    IN IF idx < 0 THEN Err("InvalidAmount", s1)
    ELSE system_transfer([s1 EXCEPT !.pool[c.pool].next_leaf_index = idx,
                                    !.pool[c.pool].last_tx_at = now],
                         Wallet(c.depositor), PoolPda(c.pool), c.amount)

\* mutant: the amount is not required to be positive
shield_handler_any_amount(s, c, now) ==
    LET t == system_transfer(s, Wallet(c.depositor), PoolPda(c.pool), c.amount)
    IN IF t.err # "Ok" THEN t
    ELSE
    LET total == checked_add(t.st.pool[c.pool].total_shielded, c.amount)
    IN IF total < 0 THEN Err("InvalidAmount", t.st)
    ELSE
    LET s1 == [t.st EXCEPT !.pool[c.pool].total_shielded = total]
        idx == checked_add(s1.pool[c.pool].next_leaf_index, 1)
    IN IF idx < 0 THEN Err("InvalidAmount", s1)
    ELSE Ok([s1 EXCEPT !.pool[c.pool].next_leaf_index = idx,
                       !.pool[c.pool].last_tx_at = now])

\* mutant: the leaf counter is advanced with a wrapping addition
shield_handler_index_wraps(s, c, now) ==
    IF ~(c.amount > 0) THEN Err("InvalidAmount", s)
    ELSE
    LET t == system_transfer(s, Wallet(c.depositor), PoolPda(c.pool), c.amount)
    IN IF t.err # "Ok" THEN t
    ELSE
    LET total == checked_add(t.st.pool[c.pool].total_shielded, c.amount)
    IN IF total < 0 THEN Err("InvalidAmount", t.st)
    ELSE
    LET s1 == [t.st EXCEPT !.pool[c.pool].total_shielded = total]
        idx == (s1.pool[c.pool].next_leaf_index + 1) % (2 ^ U64Bits)
    IN Ok([s1 EXCEPT !.pool[c.pool].next_leaf_index = idx,
                     !.pool[c.pool].last_tx_at = now])

shield_handler(s, c, now) ==
    IF ~(c.amount > 0) THEN Err("InvalidAmount", s)
    ELSE
    LET t == system_transfer(s, Wallet(c.depositor), PoolPda(c.pool), c.amount)
    IN IF t.err # "Ok" THEN t
    ELSE
    LET total == checked_add(t.st.pool[c.pool].total_shielded, c.amount)
    IN IF total < 0 THEN Err("InvalidAmount", t.st)
    ELSE
    LET s1 == [t.st EXCEPT !.pool[c.pool].total_shielded = total]
        idx == checked_add(s1.pool[c.pool].next_leaf_index, 1)
    IN IF idx < 0 THEN Err("InvalidAmount", s1)
    ELSE Ok([s1 EXCEPT !.pool[c.pool].next_leaf_index = idx,
                       !.pool[c.pool].last_tx_at = now])

shield(s, c, now) ==
    LET a == Shield_accounts(s, c)
    IN IF a.err # "Ok" THEN a ELSE shield_handler(a.st, c, now)

----------------------------------------------------------------------------
(* unshield *)

STARK_VERIFIER_ID == "StArKSLbAn43UCcujFMc5gKc8rY2BVfSbguMfyLTMtw"
OtherProgram == "11111111111111111111111111111111"
MIN_BUFFER_SIZE == 137

\* The proof buffer account handed to unshield: its owning program, its data
\* length, and the bytes at OFFSET_FINALIZED, OFFSET_COMMITMENT,
\* OFFSET_NULLIFIER and OFFSET_MERKLE_ROOT.
\* Only a buffer that passes the owner, size and finalized checks has its
\* payload compared, so the rejected shapes carry one payload.
VerifierBuffers ==
    [owner : {STARK_VERIFIER_ID}, len : {MIN_BUFFER_SIZE}, finalized : {1},
     commitment : Commitments, nullifier : Nullifiers, merkle_root : Roots]
    \cup
    {b \in [owner : {STARK_VERIFIER_ID, OtherProgram},
            len : {MIN_BUFFER_SIZE - 1, MIN_BUFFER_SIZE},
            finalized : {0, 1},
            commitment : {"c1"}, nullifier : {"n1"}, merkle_root : {"r1"}] :
        ~(b.owner = STARK_VERIFIER_ID /\ b.len = MIN_BUFFER_SIZE /\ b.finalized = 1)}

ZeroNullifier == [pool |-> NoKey, nullifier |-> "", used_at |-> 0]

\* mutant: the nullifier record is created or reused (init_if_needed)
Unshield_accounts_reinit(s, c) ==
    IF s.pool[c.pool] = NoAccount THEN Err("AccountNotInitialized", s)
    ELSE
    LET r == init_account(s, Wallet(c.recipient), NullifierPda(c.pool, c.nullifier_hash),
                          FALSE)
    IN IF r.err # "Ok" THEN r
    ELSE
    LET s1 == [r.st EXCEPT !.nullifier_record[c.pool, c.nullifier_hash] = ZeroNullifier]
    IN IF ~s1.pool[c.pool].is_active THEN Err("PoolNotActive", s1)
       ELSE IF c.verifier_buffer.owner # STARK_VERIFIER_ID
            THEN Err("InvalidProofBuffer", s1)
       ELSE Ok(s1)

\* mutant: the nullifier record's address is derived from the pool alone
Unshield_accounts_pool_seed(s, c) ==
    IF s.pool[c.pool] = NoAccount THEN Err("AccountNotInitialized", s)
    ELSE
    LET r == init_account(s, Wallet(c.recipient), NullifierPda(c.pool, c.nullifier_hash),
                          \E n \in Nullifiers : s.nullifier_record[c.pool, n] # NoAccount)
    IN IF r.err # "Ok" THEN r
    ELSE
    LET s1 == [r.st EXCEPT !.nullifier_record[c.pool, c.nullifier_hash] = ZeroNullifier]
    IN IF ~s1.pool[c.pool].is_active THEN Err("PoolNotActive", s1)
       ELSE IF c.verifier_buffer.owner # STARK_VERIFIER_ID
            THEN Err("InvalidProofBuffer", s1)
       ELSE Ok(s1)

\* mutant: the nullifier record's address is derived from the nullifier alone
Unshield_accounts_global_seed(s, c) ==
    IF s.pool[c.pool] = NoAccount THEN Err("AccountNotInitialized", s)
    ELSE
    LET r == init_account(s, Wallet(c.recipient), NullifierPda(c.pool, c.nullifier_hash),
                          \E a \in Keys : s.nullifier_record[a, c.nullifier_hash] # NoAccount)
    IN IF r.err # "Ok" THEN r
    ELSE
    LET s1 == [r.st EXCEPT !.nullifier_record[c.pool, c.nullifier_hash] = ZeroNullifier]
    IN IF ~s1.pool[c.pool].is_active THEN Err("PoolNotActive", s1)
       ELSE IF c.verifier_buffer.owner # STARK_VERIFIER_ID
            THEN Err("InvalidProofBuffer", s1)
       ELSE Ok(s1)

Unshield_accounts(s, c) ==
    IF s.pool[c.pool] = NoAccount THEN Err("AccountNotInitialized", s)
    ELSE
    LET r == init_account(s, Wallet(c.recipient), NullifierPda(c.pool, c.nullifier_hash),
                          s.nullifier_record[c.pool, c.nullifier_hash] # NoAccount)
    IN IF r.err # "Ok" THEN r
    ELSE
    LET s1 == [r.st EXCEPT !.nullifier_record[c.pool, c.nullifier_hash] = ZeroNullifier]
    IN IF ~s1.pool[c.pool].is_active THEN Err("PoolNotActive", s1)
       ELSE IF c.verifier_buffer.owner # STARK_VERIFIER_ID
            THEN Err("InvalidProofBuffer", s1)
       ELSE Ok(s1)

\* mutant: the settlement does not stamp last_tx_at
unshield_settle_unstamped(s, c, now) ==
    LET s1 == [s EXCEPT !.nullifier_record[c.pool, c.nullifier_hash] =
                   [pool |-> c.pool, nullifier |-> c.nullifier_hash, used_at |-> now],
                        !.pool[c.pool].merkle_root = c.new_root]
        total == checked_sub(s1.pool[c.pool].total_shielded, c.amount)
    IN IF total < 0 THEN Err("InsufficientPoolBalance", s1)
    ELSE
    LET s2 == [s1 EXCEPT !.pool[c.pool].total_shielded = total]
        from == checked_sub(s2.lamports[PoolPda(c.pool)], c.amount)
    IN IF from < 0 THEN Err("InsufficientPoolBalance", s2)
    ELSE
    LET s3 == [s2 EXCEPT !.lamports[PoolPda(c.pool)] = from]
        to == checked_add(s3.lamports[Wallet(c.recipient)], c.amount)
    IN IF to < 0 THEN Err("InvalidAmount", s3)
    ELSE Ok([s3 EXCEPT !.lamports[Wallet(c.recipient)] = to])

\* mutant: the settlement pays out without decreasing total_shielded
unshield_settle_unbooked(s, c, now) ==
    LET s1 == [s EXCEPT !.nullifier_record[c.pool, c.nullifier_hash] =
                   [pool |-> c.pool, nullifier |-> c.nullifier_hash, used_at |-> now],
                        !.pool[c.pool].merkle_root = c.new_root,
                        !.pool[c.pool].last_tx_at = now]
        from == checked_sub(s1.lamports[PoolPda(c.pool)], c.amount)
    IN IF from < 0 THEN Err("InsufficientPoolBalance", s1)
    ELSE
    LET s2 == [s1 EXCEPT !.lamports[PoolPda(c.pool)] = from]
        to == checked_add(s2.lamports[Wallet(c.recipient)], c.amount)
    IN IF to < 0 THEN Err("InvalidAmount", s2)
    ELSE Ok([s2 EXCEPT !.lamports[Wallet(c.recipient)] = to])

\* mutant: the settlement that empties a pool deactivates it
unshield_settle_deactivates(s, c, now) ==
    LET s1 == [s EXCEPT !.nullifier_record[c.pool, c.nullifier_hash] =
                   [pool |-> c.pool, nullifier |-> c.nullifier_hash, used_at |-> now],
                        !.pool[c.pool].merkle_root = c.new_root]
        total == checked_sub(s1.pool[c.pool].total_shielded, c.amount)
    IN IF total < 0 THEN Err("InsufficientPoolBalance", s1)
    ELSE
    LET s2 == [s1 EXCEPT !.pool[c.pool].total_shielded = total,
                         !.pool[c.pool].is_active = (total > 0),
                         !.pool[c.pool].last_tx_at = now]
        from == checked_sub(s2.lamports[PoolPda(c.pool)], c.amount)
    IN IF from < 0 THEN Err("InsufficientPoolBalance", s2)
    ELSE
    LET s3 == [s2 EXCEPT !.lamports[PoolPda(c.pool)] = from]
        to == checked_add(s3.lamports[Wallet(c.recipient)], c.amount)
    IN IF to < 0 THEN Err("InvalidAmount", s3)
    ELSE Ok([s3 EXCEPT !.lamports[Wallet(c.recipient)] = to])

\* the writes and transfers of unshield once every check has passed
unshield_settle(s, c, now) ==
    LET s1 == [s EXCEPT !.nullifier_record[c.pool, c.nullifier_hash] =
                   [pool |-> c.pool, nullifier |-> c.nullifier_hash, used_at |-> now],
                        !.pool[c.pool].merkle_root = c.new_root]
        total == checked_sub(s1.pool[c.pool].total_shielded, c.amount)
    IN IF total < 0 THEN Err("InsufficientPoolBalance", s1)
    ELSE
    LET s2 == [s1 EXCEPT !.pool[c.pool].total_shielded = total,
                         !.pool[c.pool].last_tx_at = now]
        from == checked_sub(s2.lamports[PoolPda(c.pool)], c.amount)
    IN IF from < 0 THEN Err("InsufficientPoolBalance", s2)
    ELSE
    LET s3 == [s2 EXCEPT !.lamports[PoolPda(c.pool)] = from]
        to == checked_add(s3.lamports[Wallet(c.recipient)], c.amount)
    IN IF to < 0 THEN Err("InvalidAmount", s3)
    ELSE Ok([s3 EXCEPT !.lamports[Wallet(c.recipient)] = to])

\* mutant: the pool balance is checked before the proof buffer
unshield_handler_balance_first(s, c, now) ==
    LET buf == c.verifier_buffer
    IN
    IF ~(c.amount > 0) THEN Err("InvalidAmount", s)
    ELSE IF ~(s.pool[c.pool].total_shielded >= c.amount)
         THEN Err("InsufficientPoolBalance", s)
    ELSE IF ~(buf.len >= MIN_BUFFER_SIZE) THEN Err("InvalidProofBuffer", s)
    ELSE IF ~(buf.finalized = 1) THEN Err("ProofNotVerified", s)
    ELSE IF ~(buf.nullifier = c.nullifier_hash) THEN Err("ProofNullifierMismatch", s)
    ELSE IF ~(buf.merkle_root = c.new_root) THEN Err("ProofMerkleRootMismatch", s)
    ELSE unshield_settle(s, c, now)

\* mutant: no balance check, and total_shielded is lowered with a saturating
\* subtraction
unshield_handler_saturating(s, c, now) ==
    LET buf == c.verifier_buffer
    IN
    IF ~(c.amount > 0) THEN Err("InvalidAmount", s)
    ELSE IF ~(buf.len >= MIN_BUFFER_SIZE) THEN Err("InvalidProofBuffer", s)
    ELSE IF ~(buf.finalized = 1) THEN Err("ProofNotVerified", s)
    ELSE IF ~(buf.nullifier = c.nullifier_hash) THEN Err("ProofNullifierMismatch", s)
    ELSE IF ~(buf.merkle_root = c.new_root) THEN Err("ProofMerkleRootMismatch", s)
    ELSE
    LET total == s.pool[c.pool].total_shielded
    IN unshield_settle(
           [s EXCEPT !.pool[c.pool].total_shielded =
                IF total < c.amount THEN c.amount ELSE total], c, now)

\* mutant: total_shielded is lowered but the lamports are never moved
unshield_handler_no_payout(s, c, now) ==
    LET buf == c.verifier_buffer
    IN
    IF ~(c.amount > 0) THEN Err("InvalidAmount", s)
    ELSE IF ~(buf.len >= MIN_BUFFER_SIZE) THEN Err("InvalidProofBuffer", s)
    ELSE IF ~(buf.finalized = 1) THEN Err("ProofNotVerified", s)
    ELSE IF ~(buf.nullifier = c.nullifier_hash) THEN Err("ProofNullifierMismatch", s)
    ELSE IF ~(buf.merkle_root = c.new_root) THEN Err("ProofMerkleRootMismatch", s)
    ELSE IF ~(s.pool[c.pool].total_shielded >= c.amount)
         THEN Err("InsufficientPoolBalance", s)
    ELSE Ok([s EXCEPT !.nullifier_record[c.pool, c.nullifier_hash] =
                   [pool |-> c.pool, nullifier |-> c.nullifier_hash, used_at |-> now],
                      !.pool[c.pool].merkle_root = c.new_root,
                      !.pool[c.pool].total_shielded = @ - c.amount,
                      !.pool[c.pool].last_tx_at = now])

\* mutant: the finalized byte of the proof buffer is not checked
unshield_handler_unfinalized(s, c, now) ==
    LET buf == c.verifier_buffer
    IN
    IF ~(c.amount > 0) THEN Err("InvalidAmount", s)
    ELSE IF ~(buf.len >= MIN_BUFFER_SIZE) THEN Err("InvalidProofBuffer", s)
    ELSE IF ~(buf.nullifier = c.nullifier_hash) THEN Err("ProofNullifierMismatch", s)
    ELSE IF ~(buf.merkle_root = c.new_root) THEN Err("ProofMerkleRootMismatch", s)
    ELSE IF ~(s.pool[c.pool].total_shielded >= c.amount)
         THEN Err("InsufficientPoolBalance", s)
    ELSE unshield_settle(s, c, now)

\* mutant: total_shielded is decreased without the balance check and without
\* checked arithmetic
unshield_handler_unchecked(s, c, now) ==
    LET buf == c.verifier_buffer
    IN
    IF ~(c.amount > 0) THEN Err("InvalidAmount", s)
    ELSE IF ~(buf.len >= MIN_BUFFER_SIZE) THEN Err("InvalidProofBuffer", s)
    ELSE IF ~(buf.finalized = 1) THEN Err("ProofNotVerified", s)
    ELSE IF ~(buf.nullifier = c.nullifier_hash) THEN Err("ProofNullifierMismatch", s)
    ELSE IF ~(buf.merkle_root = c.new_root) THEN Err("ProofMerkleRootMismatch", s)
    ELSE
    LET s1 == [s EXCEPT !.nullifier_record[c.pool, c.nullifier_hash] =
                   [pool |-> c.pool, nullifier |-> c.nullifier_hash, used_at |-> now],
                        !.pool[c.pool].merkle_root = c.new_root,
                        !.pool[c.pool].total_shielded = @ - c.amount,
                        !.pool[c.pool].last_tx_at = now]
        from == checked_sub(s1.lamports[PoolPda(c.pool)], c.amount)
    IN IF from < 0 THEN Err("InsufficientPoolBalance", s1)
    ELSE
    LET s2 == [s1 EXCEPT !.lamports[PoolPda(c.pool)] = from]
        to == checked_add(s2.lamports[Wallet(c.recipient)], c.amount)
    IN IF to < 0 THEN Err("InvalidAmount", s2)
    ELSE Ok([s2 EXCEPT !.lamports[Wallet(c.recipient)] = to])

\* mutant: the merkle root of the buffer is compared before its nullifier
unshield_handler_root_first(s, c, now) ==
    LET buf == c.verifier_buffer
    IN
    IF ~(c.amount > 0) THEN Err("InvalidAmount", s)
    ELSE IF ~(buf.len >= MIN_BUFFER_SIZE) THEN Err("InvalidProofBuffer", s)
    ELSE IF ~(buf.finalized = 1) THEN Err("ProofNotVerified", s)
    ELSE IF ~(buf.merkle_root = c.new_root) THEN Err("ProofMerkleRootMismatch", s)
    ELSE IF ~(buf.nullifier = c.nullifier_hash) THEN Err("ProofNullifierMismatch", s)
    ELSE IF ~(s.pool[c.pool].total_shielded >= c.amount)
         THEN Err("InsufficientPoolBalance", s)
    ELSE unshield_settle(s, c, now)

unshield_handler(s, c, now) ==
    LET buf == c.verifier_buffer
    IN
    IF ~(c.amount > 0) THEN Err("InvalidAmount", s)
    ELSE IF ~(buf.len >= MIN_BUFFER_SIZE) THEN Err("InvalidProofBuffer", s)
    ELSE IF ~(buf.finalized = 1) THEN Err("ProofNotVerified", s)
    ELSE IF ~(buf.nullifier = c.nullifier_hash) THEN Err("ProofNullifierMismatch", s)
    ELSE IF ~(buf.merkle_root = c.new_root) THEN Err("ProofMerkleRootMismatch", s)
    ELSE IF ~(s.pool[c.pool].total_shielded >= c.amount)
         THEN Err("InsufficientPoolBalance", s)
    ELSE unshield_settle(s, c, now)

unshield(s, c, now) ==
    LET a == Unshield_accounts(s, c)
    IN IF a.err # "Ok" THEN a ELSE unshield_handler(a.st, c, now)

----------------------------------------------------------------------------
(* send_stealth *)

ZeroStealth ==
    [sender |-> NoKey, stealth_address |-> "", ephemeral_pubkey |-> "", view_tag |-> 0,
     amount |-> 0, claimed |-> FALSE, created_at |-> 0]

\* mutant: the escrow record is created or reused (init_if_needed)
SendStealth_accounts_reinit(s, c) ==
    LET r == init_account(s, Wallet(c.sender), StealthPda(c.stealth_address), FALSE)
    IN IF r.err # "Ok" THEN r
       ELSE Ok([r.st EXCEPT !.stealth_account[c.stealth_address] = ZeroStealth])

SendStealth_accounts(s, c) ==
    LET r == init_account(s, Wallet(c.sender), StealthPda(c.stealth_address),
                          s.stealth_account[c.stealth_address] # NoAccount)
    IN IF r.err # "Ok" THEN r
       ELSE Ok([r.st EXCEPT !.stealth_account[c.stealth_address] = ZeroStealth])

\* mutant: the escrow record is written but the amount is not transferred
send_stealth_handler_unfunded(s, c, now) ==
    IF ~(c.amount > 0) THEN Err("InvalidAmount", s)
    ELSE
    Ok([s EXCEPT !.stealth_account[c.stealth_address] =
          [sender |-> c.sender, stealth_address |-> c.stealth_address,
           ephemeral_pubkey |-> c.ephemeral_pubkey, view_tag |-> c.view_tag,
           amount |-> c.amount, claimed |-> FALSE, created_at |-> now]])

send_stealth_handler(s, c, now) ==
    IF ~(c.amount > 0) THEN Err("InvalidAmount", s)
    ELSE
    LET s1 == [s EXCEPT !.stealth_account[c.stealth_address] =
                  [sender |-> c.sender, stealth_address |-> c.stealth_address,
                   ephemeral_pubkey |-> c.ephemeral_pubkey, view_tag |-> c.view_tag,
                   amount |-> c.amount, claimed |-> FALSE, created_at |-> now]]
    IN system_transfer(s1, Wallet(c.sender), StealthPda(c.stealth_address), c.amount)

send_stealth(s, c, now) ==
    LET a == SendStealth_accounts(s, c)
    IN IF a.err # "Ok" THEN a ELSE send_stealth_handler(a.st, c, now)

----------------------------------------------------------------------------
(* claim_stealth *)

ClaimStealth_accounts(s, c) ==
    IF s.stealth_account[c.stealth_address] = NoAccount
    THEN Err("AccountNotInitialized", s)
    ELSE IF ~(~s.stealth_account[c.stealth_address].claimed)
    THEN Err("AlreadyClaimed", s)
    ELSE Ok(s)

\* mutant: the escrow is paid out but not marked claimed
claim_stealth_handler_unmarked(s, c) ==
    LET amount == s.stealth_account[c.stealth_address].amount
    IN
    IF ~(amount > 0) THEN Err("InvalidAmount", s)
    ELSE
    LET from == checked_sub(s.lamports[StealthPda(c.stealth_address)], amount)
    IN IF from < 0 THEN Err("InsufficientPoolBalance", s)
    ELSE
    LET s1 == [s EXCEPT !.lamports[StealthPda(c.stealth_address)] = from]
        to == checked_add(s1.lamports[Wallet(c.recipient)], amount)
    IN IF to < 0 THEN Err("InvalidAmount", s1)
    ELSE Ok([s1 EXCEPT !.lamports[Wallet(c.recipient)] = to])

\* mutant: the claim closes the escrow account and hands its balance over
claim_stealth_handler_close(s, c) ==
    LET amount == s.stealth_account[c.stealth_address].amount
        all == s.lamports[StealthPda(c.stealth_address)]
    IN
    IF ~(amount > 0) THEN Err("InvalidAmount", s)
    ELSE
    LET s1 == [s EXCEPT !.lamports[StealthPda(c.stealth_address)] = 0]
        to == checked_add(s1.lamports[Wallet(c.recipient)], all)
    IN IF to < 0 THEN Err("InvalidAmount", s1)
    ELSE Ok([s1 EXCEPT !.lamports[Wallet(c.recipient)] = to,
                       !.stealth_account[c.stealth_address] = NoAccount])

claim_stealth_handler(s, c) ==
    LET amount == s.stealth_account[c.stealth_address].amount
    IN
    IF ~(amount > 0) THEN Err("InvalidAmount", s)
    ELSE
    LET from == checked_sub(s.lamports[StealthPda(c.stealth_address)], amount)
    IN IF from < 0 THEN Err("InsufficientPoolBalance", s)
    ELSE
    LET s1 == [s EXCEPT !.lamports[StealthPda(c.stealth_address)] = from]
        to == checked_add(s1.lamports[Wallet(c.recipient)], amount)
    IN IF to < 0 THEN Err("InvalidAmount", s1)
    ELSE Ok([s1 EXCEPT !.lamports[Wallet(c.recipient)] = to,
                       !.stealth_account[c.stealth_address].claimed = TRUE])

claim_stealth(s, c) ==
    LET a == ClaimStealth_accounts(s, c)
    IN IF a.err # "Ok" THEN a ELSE claim_stealth_handler(a.st, c)

----------------------------------------------------------------------------
(* Transactions *)

NoTx == [op |-> "none"]

Record(op, c, out) == [op |-> op, args |-> c, res |-> out.err]

Apply(out) ==
    LET s == Commit(State, out)
    IN /\ pool' = s.pool
       /\ nullifier_record' = s.nullifier_record
       /\ stealth_account' = s.stealth_account
       /\ lamports' = s.lamports

InitPool(c) ==
    /\ last = NoTx
    /\ LET out == init_pool(State, c, clock)
       IN /\ Apply(out)
          /\ last' = Record("init_pool", c, out)
    /\ UNCHANGED <<clock, settled, book, claimed_out, other_programs>>

Shield(c) ==
    /\ last = NoTx
    /\ LET out == shield(State, c, clock)
       IN /\ Apply(out)
          /\ last' = Record("shield", c, out)
          /\ book' = IF out.err = "Ok"
                     THEN [book EXCEPT ![c.pool].shields = @ + 1,
                                       ![c.pool].deposited = @ + c.amount]
                     ELSE book
    /\ UNCHANGED <<clock, settled, claimed_out, other_programs>>

Unshield(c) ==
    /\ last = NoTx
    /\ LET out == unshield(State, c, clock)
       IN /\ Apply(out)
          /\ last' = Record("unshield", c, out)
          /\ settled' = IF out.err = "Ok"
                        THEN [settled EXCEPT ![c.pool, c.nullifier_hash] = @ + 1]
                        ELSE settled
          /\ book' = IF out.err = "Ok"
                     THEN [book EXCEPT ![c.pool].paid_out = @ + c.amount]
                     ELSE book
    /\ UNCHANGED <<clock, claimed_out, other_programs>>

SendStealth(c) ==
    /\ last = NoTx
    /\ LET out == send_stealth(State, c, clock)
       IN /\ Apply(out)
          /\ last' = Record("send_stealth", c, out)
    /\ UNCHANGED <<clock, settled, book, claimed_out, other_programs>>

ClaimStealth(c) ==
    /\ last = NoTx
    /\ LET out == claim_stealth(State, c)
       IN /\ Apply(out)
          /\ last' = Record("claim_stealth", c, out)
          /\ claimed_out' =
               IF out.err = "Ok"
               THEN [claimed_out EXCEPT ![c.stealth_address] =
                        @ + (lamports[StealthPda(c.stealth_address)]
                             - lamports'[StealthPda(c.stealth_address)])]
               ELSE claimed_out
    /\ UNCHANGED <<clock, settled, book, other_programs>>

\* the ledger's clock advances between transactions
Tick ==
    /\ last = NoTx
    /\ clock < MaxTime
    /\ clock' = clock + 1
    /\ UNCHANGED <<pool, nullifier_record, stealth_account, lamports, last, settled, book,
                   claimed_out, other_programs>>

\* the status of the last transaction is dropped; the next one can be processed
Retire ==
    /\ last # NoTx
    /\ last' = NoTx
    /\ UNCHANGED <<pool, nullifier_record, stealth_account, lamports, clock, settled, book,
                   claimed_out, other_programs>>

InitPoolCalls == [authority : PoolAuthorities]
\* new_root is accepted by the entry point and handed to the handler
ShieldCalls ==
    [pool : PoolAuthorities, depositor : Keys, amount : Amounts, commitment : Commitments,
     new_root : Roots]

UnshieldCalls ==
    [pool : PoolAuthorities, recipient : Keys, amount : Amounts,
     nullifier_hash : Nullifiers, new_root : Roots, verifier_buffer : VerifierBuffers]
SendStealthCalls ==
    [sender : Keys, stealth_address : StealthAddrs, ephemeral_pubkey : EphemeralKeys,
     view_tag : ViewTags, amount : Amounts]
ClaimStealthCalls == [stealth_address : StealthAddrs, recipient : Keys]

Init ==
    /\ pool = [a \in Keys |-> NoAccount]
    /\ nullifier_record = [k \in Keys \X Nullifiers |-> NoAccount]
    /\ stealth_account = [x \in StealthAddrs |-> NoAccount]
    /\ lamports = [id \in AccountIds |->
                     IF id \in {Wallet(k) : k \in Keys} THEN InitLamports ELSE 0]
    /\ clock = 0
    /\ last = NoTx
    /\ settled = [k \in Keys \X Nullifiers |-> 0]
    /\ book = [a \in Keys |-> [shields |-> 0, deposited |-> 0, paid_out |-> 0]]
    /\ claimed_out = [x \in StealthAddrs |-> 0]
    /\ vault = [k \in Keys |-> NoAccount]
    /\ strategy_account = [k \in Keys |-> NoAccount]
    /\ audit_trail = [k \in Keys |-> NoAccount]
    /\ audit_log = [k \in Keys |-> <<>>]
    /\ order_book = [k \in Keys |-> NoAccount]
    /\ swap_order = [k \in Keys \X ComputationIds |-> NoAccount]

Next ==
    \/ \E c \in InitPoolCalls : InitPool(c)
    \/ \E c \in ShieldCalls : Shield(c)
    \/ \E c \in UnshieldCalls : Unshield(c)
    \/ \E c \in SendStealthCalls : SendStealth(c)
    \/ \E c \in ClaimStealthCalls : ClaimStealth(c)
    \/ Retire

\* every transaction is processed at the same timestamp
Spec == Init /\ [][Next]_vars

\* The transactions of the timed specification: one commitment, amounts that
\* fit the balances, and per nullifier and root the finalized buffer that
\* matches the call and an unfinalized one.
TimedAmounts == {a \in Amounts : a < U64_MAX}
TimedShieldCalls ==
    [pool : PoolAuthorities, depositor : Keys, amount : TimedAmounts,
     commitment : {"c1"}, new_root : {"r1"}]
TimedUnshieldCalls ==
    {c \in [pool : PoolAuthorities, recipient : Keys, amount : TimedAmounts \ {0},
            nullifier_hash : Nullifiers, new_root : Roots,
            verifier_buffer : [owner : {STARK_VERIFIER_ID}, len : {MIN_BUFFER_SIZE},
                               finalized : {0, 1}, commitment : {"c1"},
                               nullifier : Nullifiers, merkle_root : Roots]] :
        /\ c.verifier_buffer.nullifier = c.nullifier_hash
        /\ c.verifier_buffer.merkle_root = c.new_root}
TimedSendStealthCalls ==
    [sender : Keys, stealth_address : StealthAddrs, ephemeral_pubkey : EphemeralKeys,
     view_tag : ViewTags, amount : TimedAmounts \ {0}]

NextTime ==
    \/ \E c \in InitPoolCalls : InitPool(c)
    \/ \E c \in TimedShieldCalls : Shield(c)
    \/ \E c \in TimedUnshieldCalls : Unshield(c)
    \/ \E c \in TimedSendStealthCalls : SendStealth(c)
    \/ \E c \in ClaimStealthCalls : ClaimStealth(c)
    \/ Tick
    \/ Retire

\* the clock advances between transactions
SpecTime == Init /\ [][NextTime]_vars

\* The transactions of the specification with a pool per key: as in the
\* timed specification, with every key an authority.
PoolsInitPoolCalls == [authority : Keys]
PoolsShieldCalls ==
    [pool : Keys, depositor : Keys, amount : TimedAmounts,
     commitment : {"c1"}, new_root : {"r1"}]
PoolsUnshieldCalls ==
    {c \in [pool : Keys, recipient : Keys, amount : TimedAmounts \ {0},
            nullifier_hash : Nullifiers, new_root : Roots,
            verifier_buffer : [owner : {STARK_VERIFIER_ID}, len : {MIN_BUFFER_SIZE},
                               finalized : {0, 1}, commitment : {"c1"},
                               nullifier : Nullifiers, merkle_root : Roots]] :
        /\ c.verifier_buffer.nullifier = c.nullifier_hash
        /\ c.verifier_buffer.merkle_root = c.new_root}

NextPools ==
    \/ \E c \in PoolsInitPoolCalls : InitPool(c)
    \/ \E c \in PoolsShieldCalls : Shield(c)
    \/ \E c \in PoolsUnshieldCalls : Unshield(c)
    \/ \E c \in TimedSendStealthCalls : SendStealth(c)
    \/ \E c \in ClaimStealthCalls : ClaimStealth(c)
    \/ Retire

\* every key has a pool of its own; every transaction at the same timestamp
SpecPools == Init /\ [][NextPools]_vars

----------------------------------------------------------------------------
(* Vocabulary of the properties *)

ledger == <<pool, nullifier_record, stealth_account, lamports>>

\* this step processes a transaction of instruction `op`; its arguments and
\* result are last'.args and last'.res, the state it ran in is the unprimed one
Processes(op) == last = NoTx /\ last'.op = op

\* the buffer passes every check unshield makes on it
ProofAccepted(c) ==
    /\ c.verifier_buffer.owner = STARK_VERIFIER_ID
    /\ c.verifier_buffer.len >= MIN_BUFFER_SIZE
    /\ c.verifier_buffer.finalized = 1
    /\ c.verifier_buffer.nullifier = c.nullifier_hash
    /\ c.verifier_buffer.merkle_root = c.new_root

ProofErrors ==
    {"InvalidProofBuffer", "ProofNotVerified", "ProofNullifierMismatch",
     "ProofMerkleRootMismatch"}

NullifierUsed(c) == nullifier_record[c.pool, c.nullifier_hash] # NoAccount

\* the amount of the note a commitment binds (a commitment is a hash over the
\* note's amount, secret and asset)
CommittedAmount(cm) == IF cm = "c1" THEN 1 ELSE 2

----------------------------------------------------------------------------
(* C1 *)

\* C1: for every pool and every nullifier_hash, at most one unshield naming
\* that (pool, nullifier_hash) ever settles, whatever the sequence of calls:
\* once the nullifier is recorded, every unshield naming it is rejected and
\* leaves total_shielded and everything else as it was.
C1_AtMostOneSettles ==
    [][/\ \A k \in Keys \X Nullifiers : settled'[k] <= 1
       /\ (Processes("unshield") /\ pool[last'.args.pool] # NoAccount
           /\ NullifierUsed(last'.args))
          => (last'.res # "Ok" /\ UNCHANGED <<ledger, settled>>)]_vars

\* a replay that only the nullifier record stops: accepted proof, amount the
\* pool could pay, nullifier spent once before
C1_Witness ==
    /\ last.op = "unshield"
    /\ last.res # "Ok"
    /\ settled[last.args.pool, last.args.nullifier_hash] = 1
    /\ ProofAccepted(last.args)
    /\ last.args.amount > 0
    /\ pool[last.args.pool].total_shielded >= last.args.amount
    /\ lamports[Wallet(last.args.recipient)] >= RentMin

----------------------------------------------------------------------------
(* C2 *)

\* C2: a second unshield reusing a recorded (pool, nullifier_hash) fails with
\* NullifierAlreadyUsed and leaves total_shielded, the root and every balance
\* as they were.
C2_ReplayReportsNullifierAlreadyUsed ==
    [][(Processes("unshield") /\ pool[last'.args.pool] # NoAccount
        /\ NullifierUsed(last'.args))
       => (last'.res = "NullifierAlreadyUsed" /\ UNCHANGED ledger)]_vars

----------------------------------------------------------------------------
(* C3 *)

\* C3 as stated (InvalidProof read as any of the program's proof errors): an
\* unshield with amount > 0 whose proof is not accepted fails with a proof
\* error and changes nothing, whether or not the nullifier is fresh and
\* whether or not amount <= total_shielded.
C3_ProofCheckedBeforeNullifier ==
    [][(/\ Processes("unshield")
        /\ pool[last'.args.pool] # NoAccount
        /\ last'.args.amount > 0
        /\ lamports[Wallet(last'.args.recipient)] >= RentMin
        /\ ~ProofAccepted(last'.args))
       => (last'.res \in ProofErrors \cup {"InvalidProof"} /\ UNCHANGED ledger)]_vars

\* C3 amended: an unshield whose proof buffer is not accepted never settles
\* and changes nothing. With a fresh nullifier, amount > 0 and a recipient who
\* can fund the nullifier record it fails with one of the four proof-buffer
\* errors, whether or not amount <= total_shielded (never
\* InsufficientPoolBalance); with an already recorded nullifier the creation
\* of the record fails first, with the host's AccountAlreadyInUse.
C3_UnacceptedProofRejected ==
    [][(Processes("unshield") /\ pool[last'.args.pool] # NoAccount
        /\ ~ProofAccepted(last'.args))
       => /\ UNCHANGED <<ledger, settled>>
          /\ last'.res \notin {"Ok", "InsufficientPoolBalance", "NullifierAlreadyUsed"}
          /\ NullifierUsed(last'.args) => last'.res = "AccountAlreadyInUse"
          /\ (/\ ~NullifierUsed(last'.args)
              /\ last'.args.amount > 0
              /\ lamports[Wallet(last'.args.recipient)] >= RentMin)
             => last'.res \in ProofErrors]_vars

\* an unaccepted proof together with an amount the pool cannot pay
C3_Witness ==
    /\ last.op = "unshield"
    /\ last.res \in ProofErrors
    /\ ~ProofAccepted(last.args)
    /\ last.args.verifier_buffer.owner = STARK_VERIFIER_ID
    /\ last.args.amount > pool[last.args.pool].total_shielded

----------------------------------------------------------------------------
(* C4 *)

\* C4: every unshield that settles releases exactly the amount its accepted
\* proof commits to; a different requested amount is rejected.
C4_ProofBindsAmount ==
    [][(Processes("unshield") /\ last'.res = "Ok")
       => last'.args.amount = CommittedAmount(last'.args.verifier_buffer.commitment)]_vars

----------------------------------------------------------------------------
(* C5 *)

\* C5: claim_stealth succeeds only when the signer is the stealth_address on
\* the escrow record and claimed = false.
C5_OnlyStealthAddressClaims ==
    [][(Processes("claim_stealth") /\ last'.res = "Ok")
       => /\ last'.args.recipient = stealth_account[last'.args.stealth_address].stealth_address
          /\ ~stealth_account[last'.args.stealth_address].claimed]_vars

----------------------------------------------------------------------------
(* C6 *)

\* C6: a successful send_stealth(amount) leaves an unclaimed escrow of amount
\* > 0; the claim_stealth that follows pays exactly amount to the claiming
\* party and sets claimed; claimed never returns to false and every later
\* claim_stealth on that account fails with AlreadyClaimed and moves nothing.
C6_OneClaimPerEscrow ==
    [][/\ \A x \in StealthAddrs :
            (stealth_account[x] # NoAccount /\ stealth_account[x].claimed)
            => (stealth_account'[x] # NoAccount /\ stealth_account'[x].claimed)
       /\ (Processes("send_stealth") /\ last'.res = "Ok")
          => LET acc == stealth_account'[last'.args.stealth_address]
             IN acc.amount = last'.args.amount /\ acc.amount > 0 /\ ~acc.claimed
       /\ (Processes("claim_stealth")
           /\ stealth_account[last'.args.stealth_address] # NoAccount)
          => LET x == last'.args.stealth_address
                 r == Wallet(last'.args.recipient)
                 acc == stealth_account[x]
             IN IF ~acc.claimed
                THEN /\ last'.res = "Ok"
                     /\ lamports'[r] = lamports[r] + acc.amount
                     /\ lamports'[StealthPda(x)] = lamports[StealthPda(x)] - acc.amount
                     /\ stealth_account'[x] = [acc EXCEPT !.claimed = TRUE]
                ELSE /\ last'.res = "AlreadyClaimed"
                     /\ UNCHANGED ledger]_vars

\* a second claim on a claimed escrow was rejected
C6_Witness ==
    /\ last.op = "claim_stealth"
    /\ last.res = "AlreadyClaimed"
    /\ stealth_account[last.args.stealth_address].claimed
    /\ lamports[StealthPda(last.args.stealth_address)] = RentMin

----------------------------------------------------------------------------
(* C7 *)

Instructions == {"init_pool", "shield", "unshield", "send_stealth", "claim_stealth"}

\* what the records say each program account holds on top of its rent
PoolBooked(a) == IF pool[a] = NoAccount THEN 0 ELSE pool[a].total_shielded
EscrowBooked(x) ==
    IF stealth_account[x] = NoAccount \/ stealth_account[x].claimed
    THEN 0 ELSE stealth_account[x].amount
RentHeld(acc) == IF acc = NoAccount THEN 0 ELSE RentMin

\* C7: a rejected init_pool, shield, unshield, send_stealth or claim_stealth
\* leaves every pool, nullifier record, stealth account and balance as it
\* was; and over every step the funds a pool or an escrow holds move exactly
\* with its bookkeeping (no transfer without its update, no update without
\* its transfer).
C7_AllOrNothing ==
    [][/\ (last = NoTx /\ last'.op \in Instructions /\ last'.res # "Ok")
          => UNCHANGED <<ledger, settled>>
       /\ \A a \in Keys :
            lamports'[PoolPda(a)] - lamports[PoolPda(a)]
              = (PoolBooked(a)' - PoolBooked(a)) + (RentHeld(pool[a])' - RentHeld(pool[a]))
       /\ \A x \in StealthAddrs :
            lamports'[StealthPda(x)] - lamports[StealthPda(x)]
              = (EscrowBooked(x)' - EscrowBooked(x))
                + (RentHeld(stealth_account[x])' - RentHeld(stealth_account[x]))
       /\ \A k \in Keys \X Nullifiers :
            lamports'[NullifierPda(k[1], k[2])] - lamports[NullifierPda(k[1], k[2])]
              = RentHeld(nullifier_record[k])' - RentHeld(nullifier_record[k])]_vars

\* a send_stealth rejected by the transfer, after the escrow account had been
\* created and filled in
C7_Witness ==
    /\ last.op = "send_stealth"
    /\ last.res = "InsufficientFunds"
    /\ last.args.amount > 0
    /\ lamports[Wallet(last.args.sender)] >= RentMin
    /\ stealth_account[last.args.stealth_address] = NoAccount
    /\ lamports[StealthPda(last.args.stealth_address)] = 0

----------------------------------------------------------------------------
(* C8 *)

\* C8: an unshield with an accepted proof, a fresh nullifier and a recipient
\* able to fund the nullifier record fails with InsufficientPoolBalance
\* whenever amount > total_shielded; the pool is unchanged and no
\* NullifierRecord is left behind.
C8_InsufficientPoolBalance ==
    [][(/\ Processes("unshield")
        /\ pool[last'.args.pool] # NoAccount
        /\ ProofAccepted(last'.args)
        /\ ~NullifierUsed(last'.args)
        /\ lamports[Wallet(last'.args.recipient)] >= RentMin
        /\ last'.args.amount > pool[last'.args.pool].total_shielded)
       => /\ last'.res = "InsufficientPoolBalance"
          /\ UNCHANGED <<ledger, settled>>
          /\ nullifier_record'[last'.args.pool, last'.args.nullifier_hash] = NoAccount]_vars

\* the rejected withdrawal asked for an amount the pool's custody account
\* (rent included) could have paid
C8_Witness ==
    /\ last.op = "unshield"
    /\ last.res = "InsufficientPoolBalance"
    /\ ProofAccepted(last.args)
    /\ ~NullifierUsed(last.args)
    /\ last.args.amount > pool[last.args.pool].total_shielded
    /\ last.args.amount <= lamports[PoolPda(last.args.pool)]

----------------------------------------------------------------------------
(* C9 *)

\* C9: a successful shield (amount > 0, active pool, any commitment) raises
\* total_shielded by exactly amount and next_index by exactly 1, and moves
\* exactly amount from the depositor into the pool's custody.
C9_ShieldEffect ==
    [][(Processes("shield") /\ last'.res = "Ok")
       => LET c == last'.args
          IN /\ c.amount > 0
             /\ pool[c.pool].is_active
             /\ pool'[c.pool].total_shielded = pool[c.pool].total_shielded + c.amount
             /\ pool'[c.pool].next_leaf_index = pool[c.pool].next_leaf_index + 1
             /\ lamports'[Wallet(c.depositor)] = lamports[Wallet(c.depositor)] - c.amount
             /\ lamports'[PoolPda(c.pool)] = lamports[PoolPda(c.pool)] + c.amount]_vars

\* a second deposit into a pool that already holds funds
C9_Witness ==
    /\ last.op = "shield"
    /\ last.res = "Ok"
    /\ pool[last.args.pool].next_leaf_index = 2
    /\ pool[last.args.pool].total_shielded > last.args.amount

----------------------------------------------------------------------------
(* C10 *)

\* C10 as stated: when total_shielded + amount exceeds the u64 range, shield
\* fails with Overflow, and total_shielded, next_index and all balances are
\* unchanged.
C10_ShieldReportsOverflow ==
    [][(/\ Processes("shield")
        /\ pool[last'.args.pool] # NoAccount
        /\ pool[last'.args.pool].total_shielded + last'.args.amount > U64_MAX)
       => (last'.res = "Overflow" /\ UNCHANGED ledger)]_vars

\* C10 amended: when total_shielded + amount exceeds the u64 range, shield is
\* rejected rather than wrapping, with the host's insufficient-funds error of
\* the transfer that precedes the checked addition (no depositor can hold
\* that amount); total_shielded, next_index and all balances are unchanged.
C10_ShieldNeverWraps ==
    [][(/\ Processes("shield")
        /\ pool[last'.args.pool] # NoAccount
        /\ pool[last'.args.pool].total_shielded + last'.args.amount > U64_MAX)
       => (last'.res = "InsufficientFunds" /\ UNCHANGED ledger)]_vars

\* a shield of the largest amount into a pool that already holds funds
C10_Witness ==
    /\ last.op = "shield"
    /\ last.res # "Ok"
    /\ pool[last.args.pool] # NoAccount
    /\ pool[last.args.pool].total_shielded > 0
    /\ pool[last.args.pool].total_shielded + last.args.amount > U64_MAX

----------------------------------------------------------------------------
(* C11 *)

\* C11 as stated: a successful shield(amount, commitment, new_root) sets the
\* pool's merkle_root to the submitted new_root and stamps last_tx_at; after
\* the call the stored root equals new_root.
C11_ShieldSetsRoot ==
    [][(Processes("shield") /\ last'.res = "Ok")
       => /\ pool'[last'.args.pool].merkle_root = last'.args.new_root
          /\ pool'[last'.args.pool].last_tx_at = clock]_vars

----------------------------------------------------------------------------
(* C12 *)

\* C12 as stated: a successful unshield(amount, nullifier_hash, new_root, ...)
\* has exactly this effect: merkle_root becomes new_root, total_shielded
\* decreases by exactly amount, pool custody decreases and the recipient's
\* balance increases by exactly amount, a NullifierRecord for
\* (pool, nullifier_hash) now exists, last_tx_at is stamped, and
\* next_leaf_index is unchanged.
C12_UnshieldEffect ==
    [][(Processes("unshield") /\ last'.res = "Ok")
       => LET c == last'.args
          IN /\ pool'[c.pool].merkle_root = c.new_root
             /\ pool'[c.pool].total_shielded = pool[c.pool].total_shielded - c.amount
             /\ lamports'[PoolPda(c.pool)] = lamports[PoolPda(c.pool)] - c.amount
             /\ lamports'[Wallet(c.recipient)] = lamports[Wallet(c.recipient)] + c.amount
             /\ nullifier_record'[c.pool, c.nullifier_hash] # NoAccount
             /\ pool'[c.pool].last_tx_at = clock
             /\ pool'[c.pool].next_leaf_index = pool[c.pool].next_leaf_index]_vars

\* C12 amended: a successful unshield has exactly this effect: merkle_root
\* becomes new_root, total_shielded and the pool's custody decrease by exactly
\* amount, the recipient's balance changes by amount less the rent of the new
\* NullifierRecord, which the recipient pays into the record's account, the
\* NullifierRecord for (pool, nullifier_hash), absent before, now holds the
\* pool, the nullifier and the time of the call, last_tx_at is that time, and
\* every other field of the pool, every other pool, record, escrow and balance
\* is unchanged.
C12_UnshieldEffectNetOfRent ==
    [][(Processes("unshield") /\ last'.res = "Ok")
       => LET c == last'.args
              id == NullifierPda(c.pool, c.nullifier_hash)
          IN /\ pool' = [pool EXCEPT ![c.pool].merkle_root = c.new_root,
                                     ![c.pool].total_shielded = @ - c.amount,
                                     ![c.pool].last_tx_at = clock]
             /\ nullifier_record[c.pool, c.nullifier_hash] = NoAccount
             /\ nullifier_record' =
                  [nullifier_record EXCEPT ![c.pool, c.nullifier_hash] =
                      [pool |-> c.pool, nullifier |-> c.nullifier_hash, used_at |-> clock]]
             /\ lamports' = [lamports EXCEPT ![PoolPda(c.pool)] = @ - c.amount,
                                             ![Wallet(c.recipient)] = @ - RentMin + c.amount,
                                             ![id] = RentMin]
             /\ UNCHANGED stealth_account]_vars

\* a withdrawal settled after the pool's previous transaction, with an amount
\* that differs from the rent
C12_Witness ==
    /\ last.op = "unshield"
    /\ last.res = "Ok"
    /\ last.args.amount # RentMin
    /\ clock > pool[last.args.pool].created_at
    /\ pool[last.args.pool].last_tx_at = clock
    /\ pool[last.args.pool].next_leaf_index > 0
    /\ pool[last.args.pool].merkle_root = last.args.new_root

----------------------------------------------------------------------------
(* C13 *)

\* the verifying key compiled into the program: the all-zero placeholder
VERIFYING_KEY_LEN == 960
VERIFYING_KEY == [i \in 1..VERIFYING_KEY_LEN |-> 0]

\* C13 as stated: while the verifying key in use is the shipped all-zero
\* placeholder, every proof is rejected: no unshield ever settles and no
\* funds leave any pool.
C13_FailClosed ==
    (\A i \in 1..VERIFYING_KEY_LEN : VERIFYING_KEY[i] = 0)
    => /\ \A k \in Keys \X Nullifiers : settled[k] = 0
       /\ ~(last.op = "unshield" /\ last.res = "Ok")

----------------------------------------------------------------------------
(* C14 *)

\* C14: send_stealth fails whenever an escrow record already exists at the
\* same stealth_address, pending or claimed, and changes nothing; under every
\* instruction an existing record stays, keeps its sender, stealth_address,
\* ephemeral_pubkey, view_tag, amount and created_at, and is never turned
\* from claimed back to pending. Hence a send_stealth succeeds only at an
\* address that has no record: each address receives at most one payment.
C14_EscrowNeverOverwritten ==
    [][/\ (Processes("send_stealth")
           /\ stealth_account[last'.args.stealth_address] # NoAccount)
          => (last'.res = "AccountAlreadyInUse" /\ UNCHANGED <<ledger, settled>>)
       /\ (Processes("send_stealth") /\ last'.res = "Ok")
          => stealth_account[last'.args.stealth_address] = NoAccount
       /\ \A x \in StealthAddrs :
            stealth_account[x] # NoAccount
            => /\ stealth_account'[x] # NoAccount
               /\ stealth_account'[x] =
                    [stealth_account[x] EXCEPT !.claimed = stealth_account'[x].claimed]
               /\ stealth_account[x].claimed => stealth_account'[x].claimed]_vars

\* a second payment, by another sender who could fund it, to an address whose
\* escrow has already been claimed
C14_Witness ==
    /\ last.op = "send_stealth"
    /\ last.res = "AccountAlreadyInUse"
    /\ last.args.amount > 0
    /\ stealth_account[last.args.stealth_address] # NoAccount
    /\ stealth_account[last.args.stealth_address].claimed
    /\ stealth_account[last.args.stealth_address].sender # last.args.sender
    /\ stealth_account[last.args.stealth_address].amount # last.args.amount
    /\ lamports[Wallet(last.args.sender)] >= RentMin + last.args.amount

----------------------------------------------------------------------------
(* C15 *)

\* an earlier shield or unshield on pool a has committed
PoolMutated(a) ==
    /\ pool[a] # NoAccount
    /\ \/ pool[a].next_leaf_index > 0
       \/ \E n \in Nullifiers : settled[a, n] > 0

\* C15 as stated: when two pool-mutating operations (each a shield or an
\* unshield) on the same pool both commit, the pool's merkle_root afterwards
\* equals the new_root supplied by the one that committed second, and the
\* root left by the first is no longer stored unless the second supplied it
\* too.
C15_LastWriterWins ==
    [][(/\ (Processes("shield") \/ Processes("unshield"))
        /\ last'.res = "Ok"
        /\ PoolMutated(last'.args.pool))
       => pool'[last'.args.pool].merkle_root = last'.args.new_root]_vars

----------------------------------------------------------------------------
(* C16 *)

\* C16 as stated: once a committed operation has overwritten the pool's
\* merkle_root, an unshield presenting a proof for a root that is not the
\* pool's currently stored root is rejected.
C16_StaleRootRejected ==
    [][(/\ Processes("unshield")
        /\ pool[last'.args.pool] # NoAccount
        /\ pool[last'.args.pool].merkle_root # ZeroRoot
        /\ last'.args.verifier_buffer.merkle_root # pool[last'.args.pool].merkle_root)
       => last'.res # "Ok"]_vars

----------------------------------------------------------------------------
(* C17 *)

\* the unshields whose proof buffer the handler accepts
AcceptedUnshields == {c \in UnshieldCalls : ProofAccepted(c) /\ c.amount > 0}

\* the recipients can pay the rent of the nullifier records of both calls
RecordsFunded(c1, c2) ==
    IF c1.recipient = c2.recipient
    THEN lamports[Wallet(c1.recipient)] >= 2 * RentMin
    ELSE /\ lamports[Wallet(c1.recipient)] >= RentMin
         /\ lamports[Wallet(c2.recipient)] >= RentMin

\* the outcome of the transaction unshield(c2) processed right after
\* unshield(c1), from the present ledger
UnshieldThen(c1, c2) ==
    unshield(Commit(State, unshield(State, c1, clock)), c2, clock)

\* C17: for two unshields on the same pool with distinct, unused
\* nullifier_hash values, each with an accepted proof buffer and recipients
\* that can fund the two records, and total_shielded >= the sum of both
\* amounts, both succeed in either commit order, and the final total_shielded,
\* nullifier records and balances are the same in both orders; an unshield
\* fails on the nullifier registry only when a record of its own nullifier
\* exists.
C17_UnrelatedUnshieldsCommute ==
    /\ [](last = NoTx =>
          \A c1, c2 \in AcceptedUnshields :
            (/\ c1.pool = c2.pool
             /\ pool[c1.pool] # NoAccount
             /\ c1.nullifier_hash # c2.nullifier_hash
             /\ ~NullifierUsed(c1)
             /\ ~NullifierUsed(c2)
             /\ RecordsFunded(c1, c2)
             /\ pool[c1.pool].total_shielded >= c1.amount + c2.amount)
            => LET first == unshield(State, c1, clock)
                   o12 == UnshieldThen(c1, c2)
                   o21 == UnshieldThen(c2, c1)
               IN /\ first.err = "Ok"
                  /\ o12.err = "Ok"
                  /\ o21.err = "Ok"
                  /\ o12.st.pool[c1.pool].total_shielded =
                       pool[c1.pool].total_shielded - c1.amount - c2.amount
                  /\ o21.st.pool[c1.pool].total_shielded =
                       o12.st.pool[c1.pool].total_shielded
                  /\ o21.st.nullifier_record = o12.st.nullifier_record
                  /\ o21.st.lamports = o12.st.lamports)
    /\ [][(Processes("unshield") /\ last'.res = "AccountAlreadyInUse")
          => NullifierUsed(last'.args)]_vars

\* a second withdrawal, with another nullifier and another root, has settled
\* on a pool where one had settled before
C17_Witness ==
    /\ last.op = "unshield"
    /\ last.res = "Ok"
    /\ \E n \in Nullifiers :
         /\ n # last.args.nullifier_hash
         /\ settled[last.args.pool, n] = 1
         /\ settled[last.args.pool, last.args.nullifier_hash] = 1
    /\ pool[last.args.pool].total_shielded = 0

----------------------------------------------------------------------------
(* C18 *)

\* C18: in every reachable state a NullifierRecord for (pool, N) exists if
\* and only if an unshield naming (pool, N) has settled; an unshield settles
\* only with an accepted proof buffer, and an unshield that fails registers
\* no nullifier and moves no funds: every record and balance is as before,
\* so an unused nullifier stays unused.
C18_RecordIffSettled ==
    /\ [](\A k \in Keys \X Nullifiers : nullifier_record[k] # NoAccount <=> settled[k] > 0)
    /\ [][/\ (Processes("unshield") /\ last'.res = "Ok") => ProofAccepted(last'.args)
          /\ (Processes("unshield") /\ last'.res # "Ok") => UNCHANGED <<ledger, settled>>]_vars

\* an unshield with a proof for another root is rejected after its record was
\* created, on a pool that has a settled unshield for another nullifier
C18_Witness ==
    /\ last.op = "unshield"
    /\ last.res = "ProofMerkleRootMismatch"
    /\ nullifier_record[last.args.pool, last.args.nullifier_hash] = NoAccount
    /\ \E n \in Nullifiers : nullifier_record[last.args.pool, n] # NoAccount
    /\ last.args.amount <= pool[last.args.pool].total_shielded

----------------------------------------------------------------------------
(* C19 *)

\* C19: in every reachable state of every pool, total_shielded is within
\* 0 .. 2^64-1: no sequence of instructions makes it underflow or overflow.
C19_TotalShieldedInRange ==
    \A a \in Keys :
      pool[a] # NoAccount => pool[a].total_shielded \in 0..U64_MAX

\* a pool that was filled and emptied again rejects a further withdrawal
C19_Witness ==
    /\ last.op = "unshield"
    /\ last.res = "InsufficientPoolBalance"
    /\ pool[last.args.pool].next_leaf_index > 0
    /\ pool[last.args.pool].total_shielded = 0
    /\ \E n \in Nullifiers : settled[last.args.pool, n] > 0
    /\ last.args.amount <= lamports[PoolPda(last.args.pool)]

----------------------------------------------------------------------------
(* C20 *)

\* C20: a NullifierRecord is a permanent tombstone: once a record for
\* (pool, nullifier) exists, every instruction, at any later time, leaves it
\* in place with its pool, nullifier and used_at unchanged; the set of spent
\* nullifiers only grows.
C20_NullifierTombstone ==
    [][\A k \in Keys \X Nullifiers :
         nullifier_record[k] # NoAccount => nullifier_record'[k] = nullifier_record[k]]_vars

\* a replay that would otherwise pass is rejected at a later time than the
\* one the record carries
C20_Witness ==
    /\ last.op = "unshield"
    /\ last.res = "AccountAlreadyInUse"
    /\ nullifier_record[last.args.pool, last.args.nullifier_hash] # NoAccount
    /\ nullifier_record[last.args.pool, last.args.nullifier_hash].used_at < clock
    /\ ProofAccepted(last.args)
    /\ last.args.amount <= pool[last.args.pool].total_shielded
    /\ lamports[Wallet(last.args.recipient)] >= RentMin

----------------------------------------------------------------------------
(* C21 *)

\* the funds an escrow account holds above the rent of its record
Escrowed(x) == lamports[StealthPda(x)] - RentHeld(stealth_account[x])

\* C21: a StealthAccount record is created only by a successful send_stealth,
\* with claimed = false; the only later change to it is the one of a
\* successful claim_stealth on an unclaimed record, which turns claimed from
\* false to true, changes no other field and leaves no escrowed funds above
\* the record's rent; a claimed record never changes again and no record is
\* ever deleted. In every state an unclaimed record has paid out nothing and
\* a claimed one has paid out its amount and holds no escrowed funds.
C21_StealthLifecycle ==
    /\ [](\A x \in StealthAddrs :
            stealth_account[x] # NoAccount
            => IF stealth_account[x].claimed
               THEN Escrowed(x) = 0 /\ claimed_out[x] = stealth_account[x].amount
               ELSE Escrowed(x) = stealth_account[x].amount /\ claimed_out[x] = 0)
    /\ [][\A x \in StealthAddrs :
            stealth_account'[x] # stealth_account[x]
            => \/ /\ stealth_account[x] = NoAccount
                  /\ Processes("send_stealth")
                  /\ last'.res = "Ok"
                  /\ last'.args.stealth_address = x
                  /\ stealth_account'[x] # NoAccount
                  /\ ~stealth_account'[x].claimed
               \/ /\ stealth_account[x] # NoAccount
                  /\ ~stealth_account[x].claimed
                  /\ Processes("claim_stealth")
                  /\ last'.res = "Ok"
                  /\ last'.args.stealth_address = x
                  /\ stealth_account'[x] = [stealth_account[x] EXCEPT !.claimed = TRUE]
                  /\ lamports'[StealthPda(x)] = RentMin]_vars

\* an escrow of more than the rent has just been claimed
C21_Witness ==
    /\ last.op = "claim_stealth"
    /\ last.res = "Ok"
    /\ stealth_account[last.args.stealth_address].claimed
    /\ stealth_account[last.args.stealth_address].amount > RentMin
    /\ claimed_out[last.args.stealth_address] = stealth_account[last.args.stealth_address].amount
    /\ Escrowed(last.args.stealth_address) = 0

----------------------------------------------------------------------------
(* C22 *)

\* C22: there is at most one ShieldedPool per authority. An init_pool by an
\* authority that has no pool and can pay the account's rent creates it with
\* an all-zero merkle_root, next_leaf_index = 0, total_shielded = 0,
\* is_active = true and last_tx_at = created_at = the time of the call; an
\* init_pool for an authority that has a pool fails and leaves every account
\* unchanged; an existing pool is never destroyed and keeps its authority.
C22_OnePoolPerAuthority ==
    [][/\ Processes("init_pool")
          => LET a == last'.args.authority
             IN IF pool[a] # NoAccount
                THEN last'.res = "AccountAlreadyInUse" /\ UNCHANGED ledger
                ELSE IF lamports[Wallet(a)] >= RentMin
                THEN /\ last'.res = "Ok"
                     /\ pool' = [pool EXCEPT ![a] =
                           [authority |-> a, merkle_root |-> ZeroRoot,
                            next_leaf_index |-> 0, total_shielded |-> 0,
                            is_active |-> TRUE, created_at |-> clock,
                            last_tx_at |-> clock]]
                ELSE last'.res # "Ok" /\ UNCHANGED ledger
       /\ \A a \in Keys :
            pool[a] # NoAccount
            => /\ pool'[a] # NoAccount
               /\ pool'[a].authority = a
               /\ pool'[a].created_at = pool[a].created_at]_vars

\* a second init_pool, at a later time, by an authority whose pool holds
\* funds and a root, is rejected
C22_Witness ==
    /\ last.op = "init_pool"
    /\ last.res = "AccountAlreadyInUse"
    /\ pool[last.args.authority].total_shielded > 0
    /\ pool[last.args.authority].merkle_root # ZeroRoot
    /\ pool[last.args.authority].created_at < clock
    /\ lamports[Wallet(last.args.authority)] >= RentMin

----------------------------------------------------------------------------
(* C23 *)

\* the ledger s with the is_active flag of pool a cleared
Deactivated(s, a) == [s EXCEPT !.pool[a].is_active = FALSE]

\* C23: shield, unshield and send_stealth called with amount = 0 are rejected
\* and change nothing: no record is created, no counter or root changes and
\* no funds move; the error is InvalidAmount when the call's accounts are in
\* order (the pool exists; for unshield the nullifier is unused, the buffer
\* is owned by the verifier and the recipient can pay the record's rent; for
\* send_stealth the address has no escrow and the sender can pay its rent).
\* On a ledger whose pool has is_active = false, every shield of an existing
\* pool fails with PoolNotActive, every unshield fails, with PoolNotActive
\* when its nullifier is unused and its recipient can pay the record's rent,
\* and the ledger stays as it was.
C23_RejectionsHaveNoEffect ==
    /\ [][/\ (Processes("shield") /\ last'.args.amount = 0)
             => /\ last'.res # "Ok"
                /\ UNCHANGED <<ledger, settled, book>>
                /\ pool[last'.args.pool] # NoAccount => last'.res = "InvalidAmount"
          /\ (Processes("unshield") /\ last'.args.amount = 0)
             => /\ last'.res # "Ok"
                /\ UNCHANGED <<ledger, settled, book>>
                /\ (/\ pool[last'.args.pool] # NoAccount
                    /\ ~NullifierUsed(last'.args)
                    /\ last'.args.verifier_buffer.owner = STARK_VERIFIER_ID
                    /\ lamports[Wallet(last'.args.recipient)] >= RentMin)
                   => last'.res = "InvalidAmount"
          /\ (Processes("send_stealth") /\ last'.args.amount = 0)
             => /\ last'.res # "Ok"
                /\ UNCHANGED <<ledger, settled, book>>
                /\ (/\ stealth_account[last'.args.stealth_address] = NoAccount
                    /\ lamports[Wallet(last'.args.sender)] >= RentMin)
                   => last'.res = "InvalidAmount"]_vars
    /\ [](last = NoTx =>
          /\ \A c \in ShieldCalls :
               pool[c.pool] # NoAccount
               => LET out == shield(Deactivated(State, c.pool), c, clock)
                  IN /\ out.err = "PoolNotActive"
                     /\ Commit(Deactivated(State, c.pool), out) = Deactivated(State, c.pool)
          /\ \A c \in UnshieldCalls :
               pool[c.pool] # NoAccount
               => LET out == unshield(Deactivated(State, c.pool), c, clock)
                  IN /\ out.err # "Ok"
                     /\ Commit(Deactivated(State, c.pool), out) = Deactivated(State, c.pool)
                     /\ (/\ ~NullifierUsed(c)
                         /\ lamports[Wallet(c.recipient)] >= RentMin)
                        => out.err = "PoolNotActive")

\* an unshield of amount 0 with an accepted proof buffer, on a pool that holds
\* funds, was rejected
C23_Witness ==
    /\ last.op = "unshield"
    /\ last.args.amount = 0
    /\ last.res = "InvalidAmount"
    /\ ProofAccepted(last.args)
    /\ pool[last.args.pool].total_shielded > 0
    /\ pool[last.args.pool].is_active

----------------------------------------------------------------------------
(* C24 *)

\* the error of the first check of the proof buffer that call c fails, or
\* "Ok" when it passes them all
ProofVerdict(c) ==
    LET buf == c.verifier_buffer
    IN IF buf.owner # STARK_VERIFIER_ID THEN "InvalidProofBuffer"
       ELSE IF buf.len < MIN_BUFFER_SIZE THEN "InvalidProofBuffer"
       ELSE IF buf.finalized # 1 THEN "ProofNotVerified"
       ELSE IF buf.nullifier # c.nullifier_hash THEN "ProofNullifierMismatch"
       ELSE IF buf.merkle_root # c.new_root THEN "ProofMerkleRootMismatch"
       ELSE "Ok"

\* C24: an unshield returns Ok only if the proof buffer is owned by the
\* verifier program, has at least the minimum size, is marked finalized,
\* carries a nullifier equal to nullifier_hash and a merkle root equal to
\* new_root. For a positive amount, an unused nullifier and a recipient that
\* can pay the record's rent, the checks are made in that order and the first
\* that fails gives the error: InvalidProofBuffer (owner, size),
\* ProofNotVerified, ProofNullifierMismatch, ProofMerkleRootMismatch; this
\* comes before the balance check, whatever the pool's balance, and no
\* account is changed.
C24_ProofChecksInOrder ==
    [][/\ (Processes("unshield") /\ last'.res = "Ok") => ProofVerdict(last'.args) = "Ok"
       /\ (/\ Processes("unshield")
           /\ pool[last'.args.pool] # NoAccount
           /\ last'.args.amount > 0
           /\ ~NullifierUsed(last'.args)
           /\ lamports[Wallet(last'.args.recipient)] >= RentMin)
          => IF ProofVerdict(last'.args) # "Ok"
             THEN last'.res = ProofVerdict(last'.args) /\ UNCHANGED <<ledger, settled, book>>
             ELSE last'.res \in {"Ok", "InsufficientPoolBalance"}]_vars

\* an unfinalized buffer that also carries another nullifier, presented for an
\* amount the pool does not hold, is rejected as not verified
C24_Witness ==
    /\ last.op = "unshield"
    /\ last.res = "ProofNotVerified"
    /\ last.args.verifier_buffer.nullifier # last.args.nullifier_hash
    /\ last.args.amount > pool[last.args.pool].total_shielded
    /\ pool[last.args.pool].next_leaf_index > 0

----------------------------------------------------------------------------
(* C25 *)

\* C25: in every reachable state, each pool's total_shielded equals the sum
\* of the amounts of its successful shields minus the sum of the amounts of
\* its successful unshields, the funds in the pool's custody are at least
\* total_shielded (they are total_shielded plus the rent of the pool
\* account), and the total paid out never exceeds the total deposited.
C25_PoolConservation ==
    \A a \in Keys :
      /\ book[a].paid_out <= book[a].deposited
      /\ PoolBooked(a) = book[a].deposited - book[a].paid_out
      /\ lamports[PoolPda(a)] >= PoolBooked(a)
      /\ lamports[PoolPda(a)] = PoolBooked(a) + RentHeld(pool[a])

\* a pool that took two deposits and paid two withdrawals, not all of it
C25_Witness ==
    \E a \in Keys :
      /\ pool[a] # NoAccount
      /\ book[a].shields >= 2
      /\ book[a].paid_out >= 2
      /\ settled[a, "n1"] = 1
      /\ settled[a, "n2"] = 1
      /\ pool[a].total_shielded > 0

----------------------------------------------------------------------------
(* C26 *)

\* C26: send_stealth and claim_stealth, successful or not, leave every
\* ShieldedPool record, every NullifierRecord and the balances of their
\* accounts unchanged; init_pool, shield and unshield, successful or not,
\* leave every StealthAccount record and every escrow balance unchanged.
C26_RegistriesIndependent ==
    [][/\ (Processes("send_stealth") \/ Processes("claim_stealth"))
          => /\ UNCHANGED <<pool, nullifier_record, settled, book>>
             /\ \A a \in Keys : lamports'[PoolPda(a)] = lamports[PoolPda(a)]
             /\ \A k \in Keys \X Nullifiers :
                  lamports'[NullifierPda(k[1], k[2])] = lamports[NullifierPda(k[1], k[2])]
       /\ (Processes("init_pool") \/ Processes("shield") \/ Processes("unshield"))
          => /\ UNCHANGED <<stealth_account, claimed_out>>
             /\ \A x \in StealthAddrs : lamports'[StealthPda(x)] = lamports[StealthPda(x)]]_vars

\* an escrow was claimed while the pool held funds and a spent nullifier
C26_Witness ==
    /\ last.op = "claim_stealth"
    /\ last.res = "Ok"
    /\ \E a \in Keys :
         /\ pool[a] # NoAccount
         /\ pool[a].total_shielded > 0
         /\ \E n \in Nullifiers : nullifier_record[a, n] # NoAccount

----------------------------------------------------------------------------
(* C27 *)

\* the pool a pool instruction names
TargetPool(tx) == IF tx.op = "init_pool" THEN tx.args.authority ELSE tx.args.pool

\* C27: nullifier records are keyed by (pool, nullifier_hash). An unshield is
\* rejected as a duplicate only when its own pool has a record of its
\* nullifier; an unshield of an unused nullifier of its pool, with an accepted
\* proof buffer, a covered positive amount and a recipient that can pay the
\* record's rent, succeeds whatever records the other pools hold; and
\* init_pool, shield and unshield on one pool, successful or not, leave every
\* other pool's record, custody and nullifier records unchanged.
C27_NullifiersKeyedByPool ==
    [][/\ (Processes("unshield") /\ last'.res = "AccountAlreadyInUse")
          => NullifierUsed(last'.args)
       /\ (/\ Processes("unshield")
           /\ pool[last'.args.pool] # NoAccount
           /\ ProofAccepted(last'.args)
           /\ ~NullifierUsed(last'.args)
           /\ last'.args.amount > 0
           /\ last'.args.amount <= pool[last'.args.pool].total_shielded
           /\ lamports[Wallet(last'.args.recipient)] >= RentMin)
          => last'.res = "Ok"
       /\ (Processes("init_pool") \/ Processes("shield") \/ Processes("unshield"))
          => \A b \in Keys \ {TargetPool(last')} :
               /\ pool'[b] = pool[b]
               /\ lamports'[PoolPda(b)] = lamports[PoolPda(b)]
               /\ book'[b] = book[b]
               /\ \A n \in Nullifiers :
                    /\ nullifier_record'[b, n] = nullifier_record[b, n]
                    /\ settled'[b, n] = settled[b, n]]_vars

\* a nullifier spent in one pool has just been spent in another pool
C27_Witness ==
    /\ last.op = "unshield"
    /\ last.res = "Ok"
    /\ \E b \in Keys \ {last.args.pool} :
         /\ nullifier_record[b, last.args.nullifier_hash] # NoAccount
         /\ settled[b, last.args.nullifier_hash] = 1
         /\ pool[b].merkle_root # pool[last.args.pool].merkle_root

----------------------------------------------------------------------------
(* C28 *)

\* the ledger s with the leaf counter of pool a at the end of its range
CounterFull(s, a) == [s EXCEPT !.pool[a].next_leaf_index = U64_MAX]

\* C28: in every reachable state next_leaf_index of a pool equals the number
\* of successful shields on it; it never decreases, changes only by a
\* successful shield on that pool, by exactly 1, and is left unchanged by
\* unshield; a shield on a pool whose counter is at the end of the u64 range
\* is rejected rather than wrapping the counter.
C28_NextIndexCountsShields ==
    /\ [](\A a \in Keys :
            book[a].shields = IF pool[a] = NoAccount THEN 0 ELSE pool[a].next_leaf_index)
    /\ [][\A a \in Keys :
            pool[a] # NoAccount
            => /\ pool'[a].next_leaf_index >= pool[a].next_leaf_index
               /\ pool'[a].next_leaf_index # pool[a].next_leaf_index
                  => /\ Processes("shield")
                     /\ last'.res = "Ok"
                     /\ last'.args.pool = a
                     /\ pool'[a].next_leaf_index = pool[a].next_leaf_index + 1]_vars
    /\ [](last = NoTx =>
          \A c \in ShieldCalls :
            pool[c.pool] # NoAccount
            => LET out == shield(CounterFull(State, c.pool), c, clock)
               IN /\ out.err # "Ok"
                  /\ (c.amount > 0 /\ c.amount <= lamports[Wallet(c.depositor)])
                     => out.err = "InvalidAmount")

\* an unshield has settled on a pool with two deposits
C28_Witness ==
    /\ last.op = "unshield"
    /\ last.res = "Ok"
    /\ pool[last.args.pool].next_leaf_index = 2
    /\ book[last.args.pool].shields = 2

----------------------------------------------------------------------------
(* C29 *)

\* C29: shield and unshield never change a pool's authority, is_active or
\* created_at; every existing pool is active in every reachable state, and
\* no transaction is rejected with PoolNotActive.
C29_PoolsStayActive ==
    /\ [](/\ \A a \in Keys : pool[a] # NoAccount => pool[a].is_active
          /\ last # NoTx => last.res # "PoolNotActive")
    /\ [][(Processes("shield") \/ Processes("unshield"))
          => \A a \in Keys :
               pool[a] # NoAccount
               => /\ pool'[a] # NoAccount
                  /\ pool'[a].authority = pool[a].authority
                  /\ pool'[a].is_active = pool[a].is_active
                  /\ pool'[a].created_at = pool[a].created_at]_vars

\* a withdrawal, later than the pool's creation, has emptied the pool
C29_Witness ==
    /\ last.op = "unshield"
    /\ last.res = "Ok"
    /\ pool[last.args.pool].total_shielded = 0
    /\ pool[last.args.pool].is_active
    /\ pool[last.args.pool].created_at < pool[last.args.pool].last_tx_at

----------------------------------------------------------------------------
(* C30 *)

\* C30: in every reachable state each StealthAccount with claimed = false
\* holds in escrow, above the rent of its record, at least its recorded
\* amount, and the total paid out from a stealth address never exceeds the
\* amount escrowed at it by its send; the recorded amount of an existing
\* record never changes.
C30_EscrowConservation ==
    /\ [](\A x \in StealthAddrs :
            IF stealth_account[x] = NoAccount
            THEN claimed_out[x] = 0
            ELSE /\ ~stealth_account[x].claimed => Escrowed(x) >= stealth_account[x].amount
                 /\ Escrowed(x) >= 0
                 /\ claimed_out[x] <= stealth_account[x].amount)
    /\ [][\A x \in StealthAddrs :
            stealth_account[x] # NoAccount
            => /\ stealth_account'[x] # NoAccount
               /\ stealth_account'[x].amount = stealth_account[x].amount
               /\ claimed_out'[x] >= claimed_out[x]]_vars

\* a payment of more than the rent has just been escrowed
C30_Witness ==
    /\ last.op = "send_stealth"
    /\ last.res = "Ok"
    /\ ~stealth_account[last.args.stealth_address].claimed
    /\ stealth_account[last.args.stealth_address].amount > RentMin
    /\ Escrowed(last.args.stealth_address) = last.args.amount
    /\ claimed_out[last.args.stealth_address] = 0

----------------------------------------------------------------------------
(* Vault program (programs/makora_vault): state and handlers *)

\* the value that stands for 100 percent in the model: a percentage of a
\* balance has to fit the model's u64 (the program's is 100)
HundredPct == 4
\* the largest accepted slippage, in basis points
MAX_SLIPPAGE_BPS == 10000

VaultLedger == [vault |-> vault, lamports |-> lamports]

saturating_sub(a, b) == IF a < b THEN 0 ELSE a - b
checked_mul(a, b) == IF a * b > U64_MAX THEN -1 ELSE a * b

\* AgentMode::from_u8
AgentMode_from_u8(val) ==
    IF val = 0 THEN "Advisory" ELSE IF val = 1 THEN "Auto" ELSE "InvalidAgentMode"

ZeroVault ==
    [owner |-> NoKey, agent_authority |-> NoKey, total_deposited |-> 0,
     total_withdrawn |-> 0, mode |-> "Advisory",
     risk_limits |-> [max_position_size_pct |-> 0, max_slippage_bps |-> 0,
                      max_daily_loss_pct |-> 0, min_sol_reserve |-> 0,
                      max_protocol_exposure_pct |-> 0],
     created_at |-> 0, last_action_at |-> 0, in_session_amount |-> 0]

\* Vault::current_balance
current_balance(v) ==
    saturating_sub(saturating_sub(v.total_deposited, v.total_withdrawn),
                   v.in_session_amount)

\* Rent::get()?.minimum_balance(Vault::SIZE)
vault_min_rent == RentMin

\* lamports moved between two accounts by writing their balances; a balance
\* that leaves the u64 range aborts the transaction
move_lamports(s, from, to, amount) ==
    IF s.lamports[from] < amount \/ s.lamports[to] + amount > U64_MAX
    THEN Err("ProgramFailedToComplete", s)
    ELSE Ok([s EXCEPT !.lamports = [@ EXCEPT ![from] = @ - amount, ![to] = @ + amount]])

(* initialize *)

VaultInitialize_accounts(s, c) ==
    LET r == init_account(s, Wallet(c.owner), VaultPda(c.owner),
                          s.vault[c.owner] # NoAccount)
    IN IF r.err # "Ok" THEN r
       ELSE Ok([r.st EXCEPT !.vault[c.owner] = ZeroVault])

vault_initialize_handler(s, c, now) ==
    LET agent_mode == AgentMode_from_u8(c.mode)
    IN IF agent_mode = "InvalidAgentMode" THEN Err("InvalidAgentMode", s)
       ELSE IF ~(c.max_position_size_pct <= HundredPct) THEN Err("InvalidRiskLimit", s)
       ELSE IF ~(c.max_slippage_bps <= MAX_SLIPPAGE_BPS) THEN Err("InvalidRiskLimit", s)
       ELSE IF ~(c.max_daily_loss_pct <= HundredPct) THEN Err("InvalidRiskLimit", s)
       ELSE IF ~(c.max_protocol_exposure_pct <= HundredPct) THEN Err("InvalidRiskLimit", s)
       ELSE Ok([s EXCEPT !.vault[c.owner] =
                  [@ EXCEPT !.owner = c.owner,
                            !.agent_authority = c.agent_authority,
                            !.total_deposited = 0,
                            !.total_withdrawn = 0,
                            !.mode = agent_mode,
                            !.risk_limits =
                                [max_position_size_pct |-> c.max_position_size_pct,
                                 max_slippage_bps |-> c.max_slippage_bps,
                                 max_daily_loss_pct |-> c.max_daily_loss_pct,
                                 min_sol_reserve |-> c.min_sol_reserve,
                                 max_protocol_exposure_pct |-> c.max_protocol_exposure_pct],
                            !.created_at = now,
                            !.last_action_at = now]])

vault_initialize(s, c, now) ==
    LET a == VaultInitialize_accounts(s, c)
    IN IF a.err # "Ok" THEN a ELSE vault_initialize_handler(a.st, c, now)

(* deposit *)

\* the vault passed is c.vault's; has_one is checked before the seeds
Deposit_accounts(s, c) ==
    IF s.vault[c.vault] = NoAccount THEN Err("AccountNotInitialized", s)
    ELSE IF s.vault[c.vault].owner # c.owner THEN Err("Unauthorized", s)
    ELSE IF VaultPda(c.vault) # VaultPda(c.owner) THEN Err("ConstraintSeeds", s)
    ELSE Ok(s)

deposit_handler(s, c, now) ==
    IF ~(c.amount > 0) THEN Err("ZeroDeposit", s)
    ELSE
    LET t == system_transfer(s, Wallet(c.owner), VaultPda(c.vault), c.amount)
    IN IF t.err # "Ok" THEN t
    ELSE
    LET total == checked_add(t.st.vault[c.vault].total_deposited, c.amount)
    IN IF total < 0 THEN Err("ArithmeticOverflow", t.st)
    ELSE Ok([t.st EXCEPT !.vault[c.vault].total_deposited = total,
                         !.vault[c.vault].last_action_at = now])

deposit(s, c, now) ==
    LET a == Deposit_accounts(s, c)
    IN IF a.err # "Ok" THEN a ELSE deposit_handler(a.st, c, now)

(* withdraw *)

Withdraw_accounts(s, c) ==
    IF s.vault[c.vault] = NoAccount THEN Err("AccountNotInitialized", s)
    ELSE IF s.vault[c.vault].owner # c.owner THEN Err("Unauthorized", s)
    ELSE IF VaultPda(c.vault) # VaultPda(c.owner) THEN Err("ConstraintSeeds", s)
    ELSE Ok(s)

\* mutant: the balance is not checked
withdraw_handler_unchecked(s, c, now) ==
    IF ~(c.amount > 0) THEN Err("ZeroWithdraw", s)
    ELSE
    LET t == move_lamports(s, VaultPda(c.vault), Wallet(c.owner), c.amount)
    IN IF t.err # "Ok" THEN t
    ELSE
    LET total == checked_add(t.st.vault[c.vault].total_withdrawn, c.amount)
    IN IF total < 0 THEN Err("ArithmeticOverflow", t.st)
    ELSE Ok([t.st EXCEPT !.vault[c.vault].total_withdrawn = total,
                         !.vault[c.vault].last_action_at = now])

withdraw_handler(s, c, now) ==
    IF ~(c.amount > 0) THEN Err("ZeroWithdraw", s)
    ELSE
    LET v == s.vault[c.vault]
        balance == current_balance(v)
    IN IF ~(c.amount <= balance) THEN Err("InsufficientBalance", s)
    ELSE
    LET remaining_after == checked_sub(balance, c.amount)
    IN IF remaining_after < 0 THEN Err("ArithmeticOverflow", s)
    ELSE
    LET total_min == checked_add(vault_min_rent, v.risk_limits.min_sol_reserve)
    IN IF total_min < 0 THEN Err("ArithmeticOverflow", s)
    ELSE IF remaining_after > 0 /\ ~(remaining_after >= total_min)
    THEN Err("InsufficientReserve", s)
    ELSE
    LET t == move_lamports(s, VaultPda(c.vault), Wallet(c.owner), c.amount)
    IN IF t.err # "Ok" THEN t
    ELSE
    LET total == checked_add(v.total_withdrawn, c.amount)
    IN IF total < 0 THEN Err("ArithmeticOverflow", t.st)
    ELSE Ok([t.st EXCEPT !.vault[c.vault].total_withdrawn = total,
                         !.vault[c.vault].last_action_at = now])

withdraw(s, c, now) ==
    LET a == Withdraw_accounts(s, c)
    IN IF a.err # "Ok" THEN a ELSE withdraw_handler(a.st, c, now)

(* agent_withdraw *)

\* mutant: the signer is not compared with the vault's agent_authority
AgentWithdraw_accounts_any_agent(s, c) ==
    IF s.vault[c.vault] = NoAccount THEN Err("AccountNotInitialized", s)
    ELSE Ok(s)

\* the seeds are derived from the vault's own owner field
AgentWithdraw_accounts(s, c) ==
    IF s.vault[c.vault] = NoAccount THEN Err("AccountNotInitialized", s)
    ELSE IF s.vault[c.vault].agent_authority # c.agent THEN Err("UnauthorizedAgent", s)
    ELSE IF VaultPda(c.vault) # VaultPda(s.vault[c.vault].owner)
    THEN Err("ConstraintSeeds", s)
    ELSE Ok(s)

agent_withdraw_handler(s, c, now) ==
    IF ~(c.amount > 0) THEN Err("ZeroWithdraw", s)
    ELSE
    LET v == s.vault[c.vault]
    IN IF ~(v.mode = "Auto") THEN Err("NotAutoMode", s)
    ELSE
    LET available == current_balance(v)
        total_min == checked_add(vault_min_rent, v.risk_limits.min_sol_reserve)
    IN IF total_min < 0 THEN Err("ArithmeticOverflow", s)
    ELSE
    LET max_withdrawable == saturating_sub(available, total_min)
    IN IF ~(c.amount <= max_withdrawable) THEN Err("InsufficientBalance", s)
    ELSE
    LET total_balance == saturating_sub(v.total_deposited, v.total_withdrawn)
        product == checked_mul(total_balance, v.risk_limits.max_position_size_pct)
    IN IF total_balance > 0 /\ product < 0 THEN Err("ArithmeticOverflow", s)
    ELSE IF total_balance > 0 /\ ~(c.amount <= product \div HundredPct)
    THEN Err("ExceedsMaxPosition", s)
    ELSE
    LET t == move_lamports(s, VaultPda(c.vault), Wallet(c.destination), c.amount)
    IN IF t.err # "Ok" THEN t
    ELSE
    LET session == checked_add(v.in_session_amount, c.amount)
    IN IF session < 0 THEN Err("ArithmeticOverflow", t.st)
    ELSE Ok([t.st EXCEPT !.vault[c.vault].in_session_amount = session,
                         !.vault[c.vault].last_action_at = now])

agent_withdraw(s, c, now) ==
    LET a == AgentWithdraw_accounts(s, c)
    IN IF a.err # "Ok" THEN a ELSE agent_withdraw_handler(a.st, c, now)

(* agent_deposit *)

AgentDeposit_accounts(s, c) ==
    IF s.vault[c.vault] = NoAccount THEN Err("AccountNotInitialized", s)
    ELSE IF s.vault[c.vault].agent_authority # c.agent THEN Err("UnauthorizedAgent", s)
    ELSE IF VaultPda(c.vault) # VaultPda(s.vault[c.vault].owner)
    THEN Err("ConstraintSeeds", s)
    ELSE Ok(s)

agent_deposit_handler(s, c, now) ==
    IF ~(c.amount > 0) THEN Err("ZeroDeposit", s)
    ELSE
    LET t == system_transfer(s, Wallet(c.source), VaultPda(c.vault), c.amount)
    IN IF t.err # "Ok" THEN t
    ELSE Ok([t.st EXCEPT !.vault[c.vault].in_session_amount =
                             saturating_sub(@, c.amount),
                         !.vault[c.vault].last_action_at = now])

agent_deposit(s, c, now) ==
    LET a == AgentDeposit_accounts(s, c)
    IN IF a.err # "Ok" THEN a ELSE agent_deposit_handler(a.st, c, now)

(* set_mode *)

SetMode_accounts(s, c) ==
    IF s.vault[c.vault] = NoAccount THEN Err("AccountNotInitialized", s)
    ELSE IF s.vault[c.vault].owner # c.owner THEN Err("Unauthorized", s)
    ELSE IF VaultPda(c.vault) # VaultPda(c.owner) THEN Err("ConstraintSeeds", s)
    ELSE Ok(s)

set_mode_handler(s, c, now) ==
    LET new_mode == AgentMode_from_u8(c.mode)
    IN IF new_mode = "InvalidAgentMode" THEN Err("InvalidAgentMode", s)
       ELSE Ok([s EXCEPT !.vault[c.vault].mode = new_mode,
                         !.vault[c.vault].last_action_at = now])

set_mode(s, c, now) ==
    LET a == SetMode_accounts(s, c)
    IN IF a.err # "Ok" THEN a ELSE set_mode_handler(a.st, c, now)

(* Transactions of the vault program *)

\* what a vault transaction leaves alone
vault_frame ==
    <<pool, nullifier_record, stealth_account, clock, settled, book, claimed_out,
      strategy_account, audit_trail, audit_log, order_book, swap_order>>

ApplyVault(out) ==
    LET s == Commit(VaultLedger, out)
    IN /\ vault' = s.vault
       /\ lamports' = s.lamports

VaultInitialize(c) ==
    /\ last = NoTx
    /\ LET out == vault_initialize(VaultLedger, c, clock)
       IN /\ ApplyVault(out)
          /\ last' = Record("vault_initialize", c, out)
    /\ UNCHANGED vault_frame

Deposit(c) ==
    /\ last = NoTx
    /\ LET out == deposit(VaultLedger, c, clock)
       IN /\ ApplyVault(out)
          /\ last' = Record("deposit", c, out)
    /\ UNCHANGED vault_frame

Withdraw(c) ==
    /\ last = NoTx
    /\ LET out == withdraw(VaultLedger, c, clock)
       IN /\ ApplyVault(out)
          /\ last' = Record("withdraw", c, out)
    /\ UNCHANGED vault_frame

AgentWithdraw(c) ==
    /\ last = NoTx
    /\ LET out == agent_withdraw(VaultLedger, c, clock)
       IN /\ ApplyVault(out)
          /\ last' = Record("agent_withdraw", c, out)
    /\ UNCHANGED vault_frame

AgentDeposit(c) ==
    /\ last = NoTx
    /\ LET out == agent_deposit(VaultLedger, c, clock)
       IN /\ ApplyVault(out)
          /\ last' = Record("agent_deposit", c, out)
    /\ UNCHANGED vault_frame

SetMode(c) ==
    /\ last = NoTx
    /\ LET out == set_mode(VaultLedger, c, clock)
       IN /\ ApplyVault(out)
          /\ last' = Record("set_mode", c, out)
    /\ UNCHANGED vault_frame

\* the owners whose vault the transactions address
VaultOwners == {"k1"}
VaultAmounts == {0, 1, 2}
VaultInitializeCalls ==
    [owner : VaultOwners, agent_authority : Keys \ VaultOwners, mode : {0, 1, 2},
     max_position_size_pct : {1, HundredPct, HundredPct + 1},
     max_slippage_bps : {MAX_SLIPPAGE_BPS}, max_daily_loss_pct : {HundredPct},
     min_sol_reserve : {0, 1, U64_MAX}, max_protocol_exposure_pct : {HundredPct}]
DepositCalls == [owner : Keys, vault : VaultOwners, amount : VaultAmounts]
WithdrawCalls == [owner : Keys, vault : VaultOwners, amount : VaultAmounts]
AgentWithdrawCalls ==
    [agent : Keys, vault : VaultOwners, destination : Keys, amount : VaultAmounts]
AgentDepositCalls ==
    [agent : Keys, vault : VaultOwners, source : Keys, amount : VaultAmounts]
SetModeCalls == [owner : Keys, vault : VaultOwners, mode : {0, 1, 2}]

NextVault ==
    \/ \E c \in VaultInitializeCalls : VaultInitialize(c)
    \/ \E c \in DepositCalls : Deposit(c)
    \/ \E c \in WithdrawCalls : Withdraw(c)
    \/ \E c \in AgentWithdrawCalls : AgentWithdraw(c)
    \/ \E c \in AgentDepositCalls : AgentDeposit(c)
    \/ \E c \in SetModeCalls : SetMode(c)
    \/ Retire

\* the transactions of the vault program, every one at the same timestamp
SpecVault == Init /\ [][NextVault]_vars

\* a vault exists for owner k
VaultExists(k) == vault[k] # NoAccount

----------------------------------------------------------------------------
(* Properties of the vault program *)

\* C31: in every state reached by deposits, withdrawals, agent withdrawals
\* and agent deposits, accepted or rejected, every vault has
\* total_withdrawn + in_session_amount <= total_deposited, so that
\* current_balance is the exact difference
\* total_deposited - total_withdrawn - in_session_amount.
C31_VaultBookkeeping ==
    \A k \in Keys :
        VaultExists(k) =>
            /\ vault[k].total_withdrawn + vault[k].in_session_amount
                  <= vault[k].total_deposited
            /\ current_balance(vault[k])
                  = vault[k].total_deposited - vault[k].total_withdrawn
                    - vault[k].in_session_amount

\* an owner withdrawal was accepted while lamports were out in a session,
\* and nothing is left of the deposits
C31_Witness ==
    /\ last # NoTx
    /\ last.op = "withdraw"
    /\ last.res = "Ok"
    /\ vault[last.args.vault].in_session_amount > 0
    /\ vault[last.args.vault].total_withdrawn + vault[last.args.vault].in_session_amount
          = vault[last.args.vault].total_deposited

\* the conditions under which agent_withdraw is to succeed, for the call c on
\* the vault v: the signer is the agent authority, the mode is Auto, the
\* amount is positive, within the balance above rent and reserve, and within
\* the position limit
AgentWithdrawAllowed(v, c) ==
    /\ c.agent = v.agent_authority
    /\ v.mode = "Auto"
    /\ c.amount > 0
    /\ c.amount <= saturating_sub(current_balance(v),
                                  vault_min_rent + v.risk_limits.min_sol_reserve)
    /\ c.amount <= ((v.total_deposited - v.total_withdrawn)
                    * v.risk_limits.max_position_size_pct) \div HundredPct

\* rent plus reserve, or the balance times the percentage, leaves the u64 range
AgentWithdrawOverflows(v) ==
    \/ vault_min_rent + v.risk_limits.min_sol_reserve > U64_MAX
    \/ (v.total_deposited - v.total_withdrawn) * v.risk_limits.max_position_size_pct
          > U64_MAX

AgentWithdrawErrors ==
    {"UnauthorizedAgent", "NotAutoMode", "ZeroWithdraw", "InsufficientBalance",
     "ExceedsMaxPosition"}

\* this step is an accepted agent_withdraw with the effect it is to have:
\* in_session_amount grows by the amount, the totals stay
AgentWithdrawEffect ==
    LET c == last'.args
    IN /\ vault'[c.vault].in_session_amount = vault[c.vault].in_session_amount + c.amount
       /\ vault'[c.vault].total_deposited = vault[c.vault].total_deposited
       /\ vault'[c.vault].total_withdrawn = vault[c.vault].total_withdrawn

\* C32 as stated: agent_withdraw on a vault succeeds only when its conditions
\* hold, then adds the amount to in_session_amount and leaves the totals; every
\* other call is rejected with UnauthorizedAgent, NotAutoMode, ZeroWithdraw,
\* InsufficientBalance or ExceedsMaxPosition and the vault unchanged.
C32_AgentWithdrawAsStated ==
    [][(Processes("agent_withdraw") /\ VaultExists(last'.args.vault)) =>
         IF last'.res = "Ok"
         THEN AgentWithdrawAllowed(vault[last'.args.vault], last'.args)
              /\ AgentWithdrawEffect
         ELSE last'.res \in AgentWithdrawErrors /\ vault' = vault]_vars

\* C32, amended: agent_withdraw on a vault succeeds exactly when its conditions
\* hold and neither rent plus reserve nor balance times percentage overflows
\* u64; it then adds the amount to in_session_amount and leaves the totals.
\* Every other call is rejected with the vault and all balances unchanged, with
\* one of the five errors or, only when one of the two overflows,
\* ArithmeticOverflow.
C32_AgentWithdraw ==
    [][(Processes("agent_withdraw") /\ VaultExists(last'.args.vault)) =>
         LET v == vault[last'.args.vault]
         IN /\ last'.res = "Ok" <=>
                  (AgentWithdrawAllowed(v, last'.args) /\ ~AgentWithdrawOverflows(v))
            /\ last'.res = "Ok" => AgentWithdrawEffect
            /\ last'.res # "Ok" =>
                  /\ vault' = vault /\ lamports' = lamports
                  /\ last'.res \in AgentWithdrawErrors \cup {"ArithmeticOverflow"}
            /\ last'.res = "ArithmeticOverflow" => AgentWithdrawOverflows(v)]_vars

\* the agent moved lamports out of the vault into a session
C32_Witness ==
    /\ last # NoTx
    /\ last.op = "agent_withdraw"
    /\ last.res = "Ok"
    /\ vault[last.args.vault].in_session_amount = last.args.amount
    /\ vault[last.args.vault].total_withdrawn = 0

\* C33: a withdraw on a vault succeeds only for the vault's owner and only if
\* 0 < amount <= current_balance; it then adds the amount to total_withdrawn
\* and pays the owner exactly the amount. A partial withdrawal by the owner
\* that leaves less than rent minimum + min_sol_reserve fails with
\* InsufficientReserve; a withdrawal of the entire current_balance by the
\* owner is exempt from the reserve and succeeds.
C33_OwnerWithdraw ==
    [][(Processes("withdraw") /\ VaultExists(last'.args.vault)) =>
         LET c == last'.args
             v == vault[c.vault]
             balance == current_balance(v)
         IN /\ last'.res = "Ok" =>
                  /\ c.owner = v.owner
                  /\ 0 < c.amount /\ c.amount <= balance
                  /\ vault'[c.vault].total_withdrawn = v.total_withdrawn + c.amount
                  /\ lamports'[Wallet(c.owner)] = lamports[Wallet(c.owner)] + c.amount
            /\ (c.owner = v.owner /\ 0 < c.amount /\ c.amount < balance
                /\ balance - c.amount < vault_min_rent + v.risk_limits.min_sol_reserve)
                  => last'.res = "InsufficientReserve"
            /\ (c.owner = v.owner /\ 0 < c.amount /\ c.amount = balance)
                  => last'.res = "Ok"]_vars

\* C34: an accepted agent_deposit adds the amount to total_deposited and
\* lowers in_session_amount by the amount, stopping at 0.
C34_AgentDepositCredits ==
    [][(Processes("agent_deposit") /\ last'.res = "Ok") =>
         LET c == last'.args
             v == vault[c.vault]
         IN /\ vault'[c.vault].total_deposited = v.total_deposited + c.amount
            /\ vault'[c.vault].in_session_amount
                  = saturating_sub(v.in_session_amount, c.amount)]_vars

----------------------------------------------------------------------------
(* Strategy program (programs/makora_strategy): state and handlers *)

\* width of the model's u32 (the program's is 32 bits)
U32Bits == 4
\* log_action is followed up to this many accepted appends per trail
MaxAppends == 10

U32_MAX == 2^U32Bits - 1
AUDIT_TRAIL_CAPACITY == 8
\* slots of StrategyAccount::target_allocation
ALLOCATION_SLOTS == 5
\* what the percentages of an allocation have to sum to
ALLOCATION_SUM == 100
MAX_ACTION_TYPE_LEN == 16
MAX_PROTOCOL_LEN == 16
MAX_DESCRIPTION_LEN == 64

StrategyLedger ==
    [strategy_account |-> strategy_account, audit_trail |-> audit_trail,
     lamports |-> lamports]

\* a String of the caller: its text and its length in bytes
Str(text, len) == [text |-> text, len |-> len]
\* the first `cap` bytes of a string, as the fixed-size byte arrays hold it
padded(str, cap) == IF str.len <= cap THEN str ELSE Str("truncated", cap)

StrategyType_from_u8(val) ==
    IF val = 0 THEN "Yield" ELSE IF val = 1 THEN "Trading"
    ELSE IF val = 2 THEN "Rebalance" ELSE IF val = 3 THEN "Liquidity"
    ELSE "Err"

StrategyAgentMode_from_u8(val) ==
    IF val = 0 THEN "Advisory" ELSE IF val = 1 THEN "Auto" ELSE "Err"

\* AllocationTarget::default
DefaultAllocationTarget == [symbol |-> "", target_pct |-> 0]

\* AuditEntry::default
DefaultAuditEntry ==
    [index |-> 0, action_type |-> Str("", 0), protocol |-> Str("", 0),
     description |-> Str("", 0), executed |-> FALSE, success |-> FALSE, timestamp |-> 0]

\* AuditEntry::new
AuditEntry_new(index, action_type, protocol, description, executed, success, timestamp) ==
    [index |-> index,
     action_type |-> padded(action_type, MAX_ACTION_TYPE_LEN),
     protocol |-> padded(protocol, MAX_PROTOCOL_LEN),
     description |-> padded(description, MAX_DESCRIPTION_LEN),
     executed |-> executed, success |-> success, timestamp |-> timestamp]

ZeroStrategy ==
    [owner |-> NoKey, agent_authority |-> NoKey, strategy_type |-> "Yield",
     mode |-> "Advisory", confidence_threshold |-> 0, max_actions_per_cycle |-> 0,
     target_allocation |-> [i \in 0 .. ALLOCATION_SLOTS - 1 |-> DefaultAllocationTarget],
     allocation_count |-> 0, total_cycles |-> 0, total_actions_executed |-> 0,
     last_cycle_at |-> 0, created_at |-> 0]

ZeroTrail ==
    [owner |-> NoKey, head |-> 0, count |-> 0,
     entries |-> [i \in 0 .. AUDIT_TRAIL_CAPACITY - 1 |-> DefaultAuditEntry]]

\* StrategyAccount::is_authorized
is_authorized(acct, signer) == signer = acct.owner \/ signer = acct.agent_authority

\* mutant: the entry is written at the slot after the head
append_next_slot(trail, entry) ==
    LET idx == (trail.head + 1) % AUDIT_TRAIL_CAPACITY
    IN [trail EXCEPT !.entries[idx] = entry,
                     !.head = (trail.head + 1) % (U32_MAX + 1),
                     !.count = IF trail.count = U32_MAX THEN U32_MAX ELSE trail.count + 1]

\* mutant: the count is not advanced
append_no_count(trail, entry) ==
    LET idx == trail.head % AUDIT_TRAIL_CAPACITY
    IN [trail EXCEPT !.entries[idx] = entry,
                     !.head = (trail.head + 1) % (U32_MAX + 1)]

\* AuditTrail::append: head wraps at the u32 range, count saturates
append(trail, entry) ==
    LET idx == trail.head % AUDIT_TRAIL_CAPACITY
    IN [trail EXCEPT !.entries[idx] = entry,
                     !.head = (trail.head + 1) % (U32_MAX + 1),
                     !.count = IF trail.count = U32_MAX THEN U32_MAX ELSE trail.count + 1]

min(a, b) == IF a < b THEN a ELSE b

\* AuditTrail::recent: the n most recent entries, newest first
recent(trail, n) ==
    LET effective_count == min(trail.count, AUDIT_TRAIL_CAPACITY)
        take == min(n, effective_count)
        idx(i) == IF trail.head > i
                  THEN (trail.head - 1 - i) % AUDIT_TRAIL_CAPACITY
                  ELSE (AUDIT_TRAIL_CAPACITY + trail.head - 1 - i) % AUDIT_TRAIL_CAPACITY
    IN [j \in 1 .. take |-> trail.entries[idx(j - 1)]]

RECURSIVE pct_sum(_)
\* alloc_pcts.iter().map(|&p| p as u16).sum()
pct_sum(pcts) == IF pcts = <<>> THEN 0 ELSE Head(pcts) + pct_sum(Tail(pcts))

\* mutant: the sum of the percentages is not checked
allocation_check_no_sum(c) ==
    IF ~(Len(c.alloc_symbols) = Len(c.alloc_pcts)) THEN "InvalidAllocationSum"
    ELSE IF ~(Len(c.alloc_symbols) <= ALLOCATION_SLOTS) THEN "InvalidAllocationEntry"
    ELSE IF \E i \in 1 .. Len(c.alloc_pcts) : ~(c.alloc_pcts[i] <= ALLOCATION_SUM)
    THEN "InvalidAllocationEntry"
    ELSE "Ok"

\* the validation of a submitted allocation: the error it is rejected with, or "Ok"
allocation_check(c) ==
    IF ~(Len(c.alloc_symbols) = Len(c.alloc_pcts)) THEN "InvalidAllocationSum"
    ELSE IF ~(Len(c.alloc_symbols) <= ALLOCATION_SLOTS) THEN "InvalidAllocationEntry"
    ELSE IF c.alloc_pcts # <<>> /\ ~(pct_sum(c.alloc_pcts) = ALLOCATION_SUM)
    THEN "InvalidAllocationSum"
    ELSE IF \E i \in 1 .. Len(c.alloc_pcts) : ~(c.alloc_pcts[i] <= ALLOCATION_SUM)
    THEN "InvalidAllocationEntry"
    ELSE "Ok"

\* the target allocation built from the submitted symbols and percentages
build_target_allocation(c) ==
    [i \in 0 .. ALLOCATION_SLOTS - 1 |->
        IF i < Len(c.alloc_symbols) /\ i < Len(c.alloc_pcts)
        THEN [symbol |-> c.alloc_symbols[i + 1], target_pct |-> c.alloc_pcts[i + 1]]
        ELSE DefaultAllocationTarget]

(* initialize *)

\* the two accounts are created in the order of the fields, rent paid by the owner
StrategyInitialize_accounts(s, c) ==
    LET r1 == init_account(s, Wallet(c.owner), StrategyPda(c.owner),
                           s.strategy_account[c.owner] # NoAccount)
    IN IF r1.err # "Ok" THEN r1
    ELSE
    LET r2 == init_account(r1.st, Wallet(c.owner), AuditPda(c.owner),
                           s.audit_trail[c.owner] # NoAccount)
    IN IF r2.err # "Ok" THEN r2
    ELSE Ok([r2.st EXCEPT !.strategy_account[c.owner] = ZeroStrategy,
                          !.audit_trail[c.owner] = ZeroTrail])

strategy_initialize_handler(s, c, now) ==
    LET st == StrategyType_from_u8(c.strategy_type)
        m == StrategyAgentMode_from_u8(c.mode)
    IN IF st = "Err" THEN Err("InvalidStrategyType", s)
       ELSE IF m = "Err" THEN Err("InvalidAgentMode", s)
       ELSE IF allocation_check(c) # "Ok" THEN Err(allocation_check(c), s)
       ELSE Ok([s EXCEPT
                  !.strategy_account[c.owner] =
                      [owner |-> c.owner, agent_authority |-> c.agent_authority,
                       strategy_type |-> st, mode |-> m,
                       confidence_threshold |-> c.confidence_threshold,
                       max_actions_per_cycle |-> c.max_actions_per_cycle,
                       target_allocation |-> build_target_allocation(c),
                       allocation_count |-> Len(c.alloc_symbols),
                       total_cycles |-> 0, total_actions_executed |-> 0,
                       last_cycle_at |-> now, created_at |-> now],
                  !.audit_trail[c.owner] =
                      [owner |-> c.owner, head |-> 0, count |-> 0,
                       entries |-> [i \in 0 .. AUDIT_TRAIL_CAPACITY - 1 |->
                                      DefaultAuditEntry]]])

strategy_initialize(s, c, now) ==
    LET a == StrategyInitialize_accounts(s, c)
    IN IF a.err # "Ok" THEN a ELSE strategy_initialize_handler(a.st, c, now)

(* update_strategy *)

UpdateStrategy_accounts(s, c) ==
    IF s.strategy_account[c.strategy] = NoAccount THEN Err("AccountNotInitialized", s)
    ELSE IF ~is_authorized(s.strategy_account[c.strategy], c.authority)
    THEN Err("UnauthorizedStrategyUpdate", s)
    ELSE IF StrategyPda(c.strategy) # StrategyPda(s.strategy_account[c.strategy].owner)
    THEN Err("ConstraintSeeds", s)
    ELSE Ok(s)

update_strategy_handler(s, c, now) ==
    LET st == StrategyType_from_u8(c.strategy_type)
    IN IF st = "Err" THEN Err("InvalidStrategyType", s)
       ELSE IF allocation_check(c) # "Ok" THEN Err(allocation_check(c), s)
       ELSE Ok([s EXCEPT
                  !.strategy_account[c.strategy] =
                      [@ EXCEPT !.strategy_type = st,
                                !.confidence_threshold = c.confidence_threshold,
                                !.max_actions_per_cycle = c.max_actions_per_cycle,
                                !.target_allocation = build_target_allocation(c),
                                !.allocation_count = Len(c.alloc_symbols),
                                !.total_cycles =
                                    IF checked_add(@, 1) < 0 THEN U64_MAX
                                    ELSE checked_add(@, 1),
                                !.last_cycle_at = now]])

update_strategy(s, c, now) ==
    LET a == UpdateStrategy_accounts(s, c)
    IN IF a.err # "Ok" THEN a ELSE update_strategy_handler(a.st, c, now)

(* log_action *)

\* the strategy account passed is c.strategy's, the audit trail c.audit's, the
\* unchecked owner account c.owner
LogAction_accounts(s, c) ==
    IF s.strategy_account[c.strategy] = NoAccount \/ s.audit_trail[c.audit] = NoAccount
    THEN Err("AccountNotInitialized", s)
    ELSE IF ~is_authorized(s.strategy_account[c.strategy], c.authority)
    THEN Err("UnauthorizedLogAction", s)
    ELSE IF StrategyPda(c.strategy) # StrategyPda(s.strategy_account[c.strategy].owner)
    THEN Err("ConstraintSeeds", s)
    ELSE IF s.audit_trail[c.audit].owner # c.owner THEN Err("UnauthorizedLogAction", s)
    ELSE IF AuditPda(c.audit) # AuditPda(s.strategy_account[c.strategy].owner)
    THEN Err("ConstraintSeeds", s)
    ELSE Ok(s)

\* the entry log_action builds: its index is the trail's count
log_action_entry(s, c, now) ==
    AuditEntry_new(s.audit_trail[c.audit].count, c.action_type, c.protocol,
                   c.description, c.executed, c.success, now)

log_action_handler(s, c, now) ==
    IF ~(c.action_type.len <= MAX_ACTION_TYPE_LEN) THEN Err("ActionTypeTooLong", s)
    ELSE IF ~(c.protocol.len <= MAX_PROTOCOL_LEN) THEN Err("ProtocolTooLong", s)
    ELSE IF ~(c.description.len <= MAX_DESCRIPTION_LEN) THEN Err("DescriptionTooLong", s)
    ELSE Ok([s EXCEPT
               !.audit_trail[c.audit] = append(@, log_action_entry(s, c, now)),
               !.strategy_account[c.strategy] =
                   [@ EXCEPT !.total_actions_executed =
                                 IF ~c.executed THEN @
                                 ELSE IF checked_add(@, 1) < 0 THEN U64_MAX
                                 ELSE checked_add(@, 1),
                             !.last_cycle_at = now]])

log_action(s, c, now) ==
    LET a == LogAction_accounts(s, c)
    IN IF a.err # "Ok" THEN a ELSE log_action_handler(a.st, c, now)

(* update_permissions *)

\* mutant: the owner or the agent authority may sign
UpdatePermissions_accounts_authorized(s, c) ==
    IF s.strategy_account[c.strategy] = NoAccount THEN Err("AccountNotInitialized", s)
    ELSE IF ~is_authorized(s.strategy_account[c.strategy], c.owner)
    THEN Err("UnauthorizedPermissionsUpdate", s)
    ELSE Ok(s)

UpdatePermissions_accounts(s, c) ==
    IF s.strategy_account[c.strategy] = NoAccount THEN Err("AccountNotInitialized", s)
    ELSE IF s.strategy_account[c.strategy].owner # c.owner
    THEN Err("UnauthorizedPermissionsUpdate", s)
    ELSE IF StrategyPda(c.strategy) # StrategyPda(s.strategy_account[c.strategy].owner)
    THEN Err("ConstraintSeeds", s)
    ELSE Ok(s)

update_permissions_handler(s, c) ==
    LET mode == StrategyAgentMode_from_u8(c.new_mode)
    IN IF mode = "Err" THEN Err("InvalidAgentMode", s)
       ELSE Ok([s EXCEPT !.strategy_account[c.strategy].agent_authority =
                             c.new_agent_authority,
                         !.strategy_account[c.strategy].mode = mode])

update_permissions(s, c) ==
    LET a == UpdatePermissions_accounts(s, c)
    IN IF a.err # "Ok" THEN a ELSE update_permissions_handler(a.st, c)

(* Transactions of the strategy program *)

\* what a strategy transaction leaves alone
strategy_frame ==
    <<pool, nullifier_record, stealth_account, clock, settled, book, claimed_out,
      vault, order_book, swap_order>>

ApplyStrategy(out) ==
    LET s == Commit(StrategyLedger, out)
    IN /\ strategy_account' = s.strategy_account
       /\ audit_trail' = s.audit_trail
       /\ lamports' = s.lamports

StrategyInitialize(c) ==
    /\ last = NoTx
    /\ LET out == strategy_initialize(StrategyLedger, c, clock)
       IN /\ ApplyStrategy(out)
          /\ last' = Record("strategy_initialize", c, out)
    /\ UNCHANGED <<strategy_frame, audit_log>>

UpdateStrategy(c) ==
    /\ last = NoTx
    /\ LET out == update_strategy(StrategyLedger, c, clock)
       IN /\ ApplyStrategy(out)
          /\ last' = Record("update_strategy", c, out)
    /\ UNCHANGED <<strategy_frame, audit_log>>

\* audit_log keeps every entry an accepted log_action handed to append
LogAction(c) ==
    /\ last = NoTx
    /\ Len(audit_log[c.audit]) < MaxAppends
    /\ LET out == log_action(StrategyLedger, c, clock)
       IN /\ ApplyStrategy(out)
          /\ last' = Record("log_action", c, out)
          /\ audit_log' =
               IF out.err = "Ok"
               THEN [audit_log EXCEPT ![c.audit] =
                        Append(@, log_action_entry(StrategyLedger, c, clock))]
               ELSE audit_log
    /\ UNCHANGED strategy_frame

UpdatePermissions(c) ==
    /\ last = NoTx
    /\ LET out == update_permissions(StrategyLedger, c)
       IN /\ ApplyStrategy(out)
          /\ last' = Record("update_permissions", c, out)
    /\ UNCHANGED <<strategy_frame, audit_log>>

\* the owners whose strategy account the transactions address
StrategyOwners == {"k1"}
\* submitted allocations: symbols and percentages of equal and of unequal
\* length, percentages that sum to 100 and that do not, five and six entries
Allocations ==
    {[alloc_symbols |-> <<>>, alloc_pcts |-> <<>>],
     [alloc_symbols |-> <<"SOL">>, alloc_pcts |-> <<100>>],
     [alloc_symbols |-> <<"SOL">>, alloc_pcts |-> <<101>>],
     [alloc_symbols |-> <<"SOL">>, alloc_pcts |-> <<50>>],
     [alloc_symbols |-> <<"SOL", "USDC">>, alloc_pcts |-> <<100>>],
     [alloc_symbols |-> <<"SOL", "USDC">>, alloc_pcts |-> <<50, 50>>],
     [alloc_symbols |-> <<"SOL", "USDC">>, alloc_pcts |-> <<100, 0>>],
     [alloc_symbols |-> <<"SOL", "USDC">>, alloc_pcts |-> <<200, 156>>],
     [alloc_symbols |-> <<"SOL", "USDC", "mSOL", "JUP", "BONK">>,
      alloc_pcts |-> <<20, 20, 20, 20, 20>>],
     [alloc_symbols |-> <<"SOL", "USDC", "mSOL", "JUP", "BONK", "RAY">>,
      alloc_pcts |-> <<20, 20, 20, 20, 10, 10>>]}

StrategyInitializeCalls ==
    {[owner |-> o, agent_authority |-> a, strategy_type |-> t, mode |-> m,
      confidence_threshold |-> 70, max_actions_per_cycle |-> 3,
      alloc_symbols |-> al.alloc_symbols, alloc_pcts |-> al.alloc_pcts] :
        o \in StrategyOwners, a \in Keys \ StrategyOwners, t \in {0, 4}, m \in {0, 2},
        al \in Allocations}
UpdateStrategyCalls ==
    {[authority |-> k, strategy |-> o, strategy_type |-> t,
      confidence_threshold |-> 70, max_actions_per_cycle |-> 3,
      alloc_symbols |-> al.alloc_symbols, alloc_pcts |-> al.alloc_pcts] :
        k \in Keys, o \in StrategyOwners, t \in {1, 4}, al \in Allocations}
UpdatePermissionsCalls ==
    [owner : Keys, strategy : StrategyOwners, new_agent_authority : Keys,
     new_mode : {0, 1, 2}]
\* the strings of a logged action: within their limits and past them
ActionTypes == {Str("swap", 4), Str("rebalance-portfolio", 19)}
Protocols == {Str("jupiter", 7)}
Descriptions == {Str("swap SOL for USDC", 17)}
LogActionCalls ==
    [authority : Keys, strategy : StrategyOwners, audit : StrategyOwners,
     owner : Keys, action_type : ActionTypes, protocol : Protocols,
     description : Descriptions, executed : {FALSE}, success : {FALSE}]

NextStrategy ==
    \/ \E c \in StrategyInitializeCalls : StrategyInitialize(c)
    \/ \E c \in UpdateStrategyCalls : UpdateStrategy(c)
    \/ \E c \in LogActionCalls : LogAction(c)
    \/ \E c \in UpdatePermissionsCalls : UpdatePermissions(c)
    \/ Retire

\* the transactions of the strategy program, every one at the same timestamp
SpecStrategy == Init /\ [][NextStrategy]_vars

\* The transactions of the audit specification: one strategy account, and
\* logged actions that were executed and that were not.
AuditInitializeCalls ==
    {c \in StrategyInitializeCalls :
        c.strategy_type = 0 /\ c.mode = 0 /\ c.alloc_pcts = <<>>}
AuditLogActionCalls ==
    [authority : Keys, strategy : StrategyOwners, audit : StrategyOwners,
     owner : StrategyOwners, action_type : {Str("swap", 4)}, protocol : Protocols,
     description : Descriptions, executed : BOOLEAN, success : {TRUE}]

NextAudit ==
    \/ \E c \in AuditInitializeCalls : StrategyInitialize(c)
    \/ \E c \in AuditLogActionCalls : LogAction(c)
    \/ Retire

\* an audit trail under a run of logged actions
SpecAudit == Init /\ [][NextAudit]_vars

StrategyExists(k) == strategy_account[k] # NoAccount

----------------------------------------------------------------------------
(* Properties of the strategy program *)

TrailExists(k) == audit_trail[k] # NoAccount

\* the last n entries of the reference log, newest first
NewestFirst(log, n) == [j \in 1 .. n |-> log[Len(log) - j + 1]]

\* the n that recent is asked for
RecentSizes == 0 .. AUDIT_TRAIL_CAPACITY + 1

\* a full trail after d more rounds of 8 appends, as far as its head and its
\* count go: the head has advanced by 8d within the u32 range, wrapping, and
\* the count has grown by 8d, saturating
Aged(trail, d) ==
    [trail EXCEPT !.head = (@ + d * AUDIT_TRAIL_CAPACITY) % (U32_MAX + 1),
                  !.count = min(U32_MAX, @ + d * AUDIT_TRAIL_CAPACITY)]

\* the rounds of 8 appends that take a head around the u32 range
Rounds == 1 .. (U32_MAX + 1) \div AUDIT_TRAIL_CAPACITY

\* C35: the audit trail is a ring of 8 slots over the log of everything
\* appended. After k appends its slots hold exactly the newest min(k, 8)
\* entries of the log (the others still hold the default entry); an append to
\* a full ring overwrites the slot of the oldest retained entry and no other;
\* recent(n) is the newest min(n, k, 8) entries of the log, newest first.
\* A full ring whose head has wrapped around the u32 range and whose count
\* has saturated answers recent and takes an append in the same slots.
C35_RingBufferRefinesLog ==
    /\ [](\A o \in Keys :
            TrailExists(o) =>
                LET log == audit_log[o]
                    k == Len(log)
                    held == min(k, AUDIT_TRAIL_CAPACITY)
                IN /\ \A j \in 1 .. held :
                        audit_trail[o].entries[(k - j) % AUDIT_TRAIL_CAPACITY]
                            = log[k - j + 1]
                   /\ \A i \in 0 .. AUDIT_TRAIL_CAPACITY - 1 :
                        i >= k => audit_trail[o].entries[i] = DefaultAuditEntry
                   /\ \A n \in RecentSizes :
                        recent(audit_trail[o], n) = NewestFirst(log, min(n, held)))
    /\ [](\A o \in Keys, d \in Rounds :
            (TrailExists(o) /\ Len(audit_log[o]) >= AUDIT_TRAIL_CAPACITY) =>
                /\ \A n \in RecentSizes :
                      recent(Aged(audit_trail[o], d), n) = recent(audit_trail[o], n)
                /\ append(Aged(audit_trail[o], d), DefaultAuditEntry).entries
                      = append(audit_trail[o], DefaultAuditEntry).entries)
    /\ [][(Processes("log_action") /\ last'.res = "Ok"
           /\ Len(audit_log[last'.args.audit]) >= AUDIT_TRAIL_CAPACITY) =>
             LET o == last'.args.audit
                 log == audit_log[o]
                 oldest == log[Len(log) - AUDIT_TRAIL_CAPACITY + 1]
             IN \A i \in 0 .. AUDIT_TRAIL_CAPACITY - 1 :
                    IF audit_trail[o].entries[i] = oldest
                    THEN audit_trail'[o].entries[i] = audit_log'[o][Len(log) + 1]
                    ELSE audit_trail'[o].entries[i] = audit_trail[o].entries[i]]_vars

\* an entry was appended to a ring that was already full
C35_Witness ==
    /\ last # NoTx
    /\ last.op = "log_action"
    /\ last.res = "Ok"
    /\ Len(audit_log[last.args.audit]) > AUDIT_TRAIL_CAPACITY
    /\ recent(audit_trail[last.args.audit], 1)[1].index = AUDIT_TRAIL_CAPACITY

\* this step is an accepted log_action whose entry carries the trail's count
\* as its index, and that counts the action as executed exactly when it was
LogActionWrites ==
    LET c == last'.args
        acct == strategy_account[c.strategy]
    IN /\ audit_log'[c.audit][Len(audit_log'[c.audit])].index = audit_trail[c.audit].count
       /\ strategy_account'[c.strategy].total_actions_executed =
             IF c.executed THEN min(U64_MAX, acct.total_actions_executed + 1)
             ELSE acct.total_actions_executed

StrategyInstructions ==
    {"strategy_initialize", "update_strategy", "log_action", "update_permissions"}

\* the key that signed the strategy transaction with status tx
StrategySigner(tx) ==
    IF tx.op \in {"update_strategy", "log_action"} THEN tx.args.authority
    ELSE tx.args.owner

\* C37: a strategy transaction that the owner of a strategy account did not
\* sign, whichever instruction it is and whether it is accepted or not, leaves
\* the account's agent_authority and mode as they were; update_strategy and
\* log_action are accepted only from the owner or the agent authority of the
\* account they name.
C37_OnlyOwnerChangesPermissions ==
    [][(last = NoTx /\ last'.op \in StrategyInstructions) =>
         /\ \A o \in Keys :
               (StrategyExists(o) /\ StrategySigner(last') # strategy_account[o].owner) =>
                   /\ strategy_account'[o] # NoAccount
                   /\ strategy_account'[o].agent_authority
                         = strategy_account[o].agent_authority
                   /\ strategy_account'[o].mode = strategy_account[o].mode
         /\ (last'.op \in {"update_strategy", "log_action"} /\ last'.res = "Ok") =>
               is_authorized(strategy_account[last'.args.strategy], last'.args.authority)]_vars

\* the agent authority, after an update of the strategy, asked for new
\* permissions and was turned down
C37_Witness ==
    /\ last # NoTx
    /\ last.op = "update_permissions"
    /\ last.res = "UnauthorizedPermissionsUpdate"
    /\ last.args.owner = strategy_account[last.args.strategy].agent_authority
    /\ last.args.owner # strategy_account[last.args.strategy].owner
    /\ last.args.new_agent_authority # strategy_account[last.args.strategy].agent_authority
    /\ strategy_account[last.args.strategy].total_cycles > 0

\* the sum of the percentages an account stores
StoredPct(acct) ==
    pct_sum([i \in 1 .. ALLOCATION_SLOTS |-> acct.target_allocation[i - 1].target_pct])

\* the allocation submitted by the call c breaks the rules of an allocation
BadAllocation(c) ==
    \/ Len(c.alloc_symbols) # Len(c.alloc_pcts)
    \/ Len(c.alloc_pcts) > ALLOCATION_SLOTS
    \/ \E i \in 1 .. Len(c.alloc_pcts) : c.alloc_pcts[i] > ALLOCATION_SUM
    \/ c.alloc_pcts # <<>> /\ pct_sum(c.alloc_pcts) # ALLOCATION_SUM

\* the owner of the strategy account that the transaction with status tx names
StrategyNamed(tx) == IF tx.op = "strategy_initialize" THEN tx.args.owner ELSE tx.args.strategy

\* the errors of the checks that run before the allocation is looked at
BeforeAllocationErrors ==
    {"AccountAlreadyInUse", "InsufficientFunds", "AccountNotInitialized",
     "UnauthorizedStrategyUpdate", "InvalidStrategyType", "InvalidAgentMode"}

\* C38: every strategy account stores at most 5 used slots, the slots past
\* allocation_count hold the default target, every target_pct is at most 100,
\* and the percentages sum to exactly 100 unless the allocation is empty. An
\* accepted initialize or update_strategy stores exactly the submitted entries
\* and their number; a submission that breaks the rules is rejected with the
\* account unchanged, and with InvalidAllocationSum or InvalidAllocationEntry
\* unless an earlier check has already rejected the call.
C38_AllocationInvariant ==
    /\ [](\A o \in Keys :
            StrategyExists(o) =>
                LET acct == strategy_account[o]
                IN /\ acct.allocation_count <= ALLOCATION_SLOTS
                   /\ \A i \in 0 .. ALLOCATION_SLOTS - 1 :
                        /\ acct.target_allocation[i].target_pct <= ALLOCATION_SUM
                        /\ i >= acct.allocation_count =>
                              acct.target_allocation[i] = DefaultAllocationTarget
                   /\ StoredPct(acct) = ALLOCATION_SUM \/ acct.allocation_count = 0)
    /\ [][(last = NoTx /\ last'.op \in {"strategy_initialize", "update_strategy"}) =>
             LET c == last'.args
                 o == StrategyNamed(last')
             IN /\ last'.res = "Ok" =>
                      /\ strategy_account'[o].allocation_count = Len(c.alloc_pcts)
                      /\ Len(c.alloc_symbols) = Len(c.alloc_pcts)
                      /\ \A i \in 1 .. Len(c.alloc_pcts) :
                            strategy_account'[o].target_allocation[i - 1]
                                = [symbol |-> c.alloc_symbols[i], target_pct |-> c.alloc_pcts[i]]
                /\ BadAllocation(c) =>
                      /\ last'.res # "Ok"
                      /\ strategy_account' = strategy_account
                      /\ last'.res \in {"InvalidAllocationSum", "InvalidAllocationEntry"}
                                        \cup BeforeAllocationErrors
                /\ last'.res \in {"InvalidAllocationSum", "InvalidAllocationEntry"} =>
                      BadAllocation(c)]_vars

\* an update that breaks the rules was turned down and the five slots of the
\* account are as they were
C38_Witness ==
    /\ last # NoTx
    /\ last.op = "update_strategy"
    /\ last.res = "InvalidAllocationSum"
    /\ Len(last.args.alloc_pcts) = Len(last.args.alloc_symbols)
    /\ strategy_account[last.args.strategy].allocation_count = ALLOCATION_SLOTS
    /\ strategy_account[last.args.strategy].total_cycles > 0

----------------------------------------------------------------------------
(* Confidential swap program (programs/makora_confidential) *)

MAX_ORDER_LEN == 512
MIN_ORDER_LEN == 32

\* the key of the MPC cluster that is to finalize computations; no account of
\* the program stores it
ClusterAuthority == "k2"

ConfidentialLedger ==
    [order_book |-> order_book, swap_order |-> swap_order, lamports |-> lamports]

ZeroOrderBook == [authority |-> NoKey, order_count |-> 0, settled_count |-> 0]

ZeroSwapOrder ==
    [owner |-> NoKey, encrypted_order |-> [len |-> 0], client_pubkey |-> "",
     nonce |-> "", computation_id |-> "", status |-> "Pending", submitted_at |-> 0,
     settled_at |-> 0]

(* init_order_book *)

InitOrderBook_accounts(s, c) ==
    LET r == init_account(s, Wallet(c.authority), OrderBookPda(c.authority),
                          s.order_book[c.authority] # NoAccount)
    IN IF r.err # "Ok" THEN r
       ELSE Ok([r.st EXCEPT !.order_book[c.authority] = ZeroOrderBook])

init_order_book_handler(s, c) ==
    Ok([s EXCEPT !.order_book[c.authority] =
          [authority |-> c.authority, order_count |-> 0, settled_count |-> 0]])

init_order_book(s, c) ==
    LET a == InitOrderBook_accounts(s, c)
    IN IF a.err # "Ok" THEN a ELSE init_order_book_handler(a.st, c)

(* submit_confidential_swap *)

\* the order account is created first, then the order book of the owner is read
SubmitConfidentialSwap_accounts(s, c) ==
    LET r == init_account(s, Wallet(c.owner), SwapOrderPda(c.owner, c.computation_id),
                          s.swap_order[c.owner, c.computation_id] # NoAccount)
    IN IF r.err # "Ok" THEN r
       ELSE IF s.order_book[c.owner] = NoAccount THEN Err("AccountNotInitialized", s)
       ELSE Ok([r.st EXCEPT !.swap_order[c.owner, c.computation_id] = ZeroSwapOrder])

\* checked_add(1).unwrap() aborts the transaction when the counter is full
submit_confidential_swap_handler(s, c, now) ==
    IF ~(c.encrypted_order.len <= MAX_ORDER_LEN) THEN Err("OrderTooLarge", s)
    ELSE IF ~(c.encrypted_order.len >= MIN_ORDER_LEN) THEN Err("OrderTooSmall", s)
    ELSE IF checked_add(s.order_book[c.owner].order_count, 1) < 0
    THEN Err("ProgramFailedToComplete", s)
    ELSE Ok([s EXCEPT
               !.swap_order[c.owner, c.computation_id] =
                   [owner |-> c.owner, encrypted_order |-> c.encrypted_order,
                    client_pubkey |-> c.client_pubkey, nonce |-> c.nonce,
                    computation_id |-> c.computation_id, status |-> "Pending",
                    submitted_at |-> now, settled_at |-> 0],
               !.order_book[c.owner].order_count = @ + 1])

submit_confidential_swap(s, c, now) ==
    LET a == SubmitConfidentialSwap_accounts(s, c)
    IN IF a.err # "Ok" THEN a ELSE submit_confidential_swap_handler(a.st, c, now)

(* execute_swap_callback *)

\* the order passed is the one at c.swap_order, the order book c.order_book's,
\* the unchecked owner account c.owner; cluster_authority is any signer
ExecuteSwapCallback_accounts(s, c) ==
    IF s.swap_order[c.swap_order] = NoAccount \/ s.order_book[c.order_book] = NoAccount
    THEN Err("AccountNotInitialized", s)
    ELSE IF s.swap_order[c.swap_order].owner # c.owner THEN Err("ConstraintHasOne", s)
    ELSE IF OrderBookPda(c.order_book) # OrderBookPda(c.owner) THEN Err("ConstraintSeeds", s)
    ELSE Ok(s)

execute_swap_callback_handler(s, c, now) ==
    IF ~(s.swap_order[c.swap_order].status = "Pending") THEN Err("OrderNotPending", s)
    ELSE IF checked_add(s.order_book[c.order_book].settled_count, 1) < 0
    THEN Err("ProgramFailedToComplete", s)
    ELSE Ok([s EXCEPT !.swap_order[c.swap_order].status = "Settled",
                      !.swap_order[c.swap_order].settled_at = now,
                      !.order_book[c.order_book].settled_count = @ + 1])

execute_swap_callback(s, c, now) ==
    LET a == ExecuteSwapCallback_accounts(s, c)
    IN IF a.err # "Ok" THEN a ELSE execute_swap_callback_handler(a.st, c, now)

(* Transactions of the confidential swap program *)

\* what a confidential swap transaction leaves alone
confidential_frame ==
    <<pool, nullifier_record, stealth_account, clock, settled, book, claimed_out,
      vault, strategy_account, audit_trail, audit_log>>

ApplyConfidential(out) ==
    LET s == Commit(ConfidentialLedger, out)
    IN /\ order_book' = s.order_book
       /\ swap_order' = s.swap_order
       /\ lamports' = s.lamports

InitOrderBook(c) ==
    /\ last = NoTx
    /\ LET out == init_order_book(ConfidentialLedger, c)
       IN /\ ApplyConfidential(out)
          /\ last' = Record("init_order_book", c, out)
    /\ UNCHANGED confidential_frame

SubmitConfidentialSwap(c) ==
    /\ last = NoTx
    /\ LET out == submit_confidential_swap(ConfidentialLedger, c, clock)
       IN /\ ApplyConfidential(out)
          /\ last' = Record("submit_confidential_swap", c, out)
    /\ UNCHANGED confidential_frame

ExecuteSwapCallback(c) ==
    /\ last = NoTx
    /\ LET out == execute_swap_callback(ConfidentialLedger, c, clock)
       IN /\ ApplyConfidential(out)
          /\ last' = Record("execute_swap_callback", c, out)
    /\ UNCHANGED confidential_frame

InitOrderBookCalls == [authority : Keys]
SubmitConfidentialSwapCalls ==
    [owner : Keys, computation_id : ComputationIds,
     encrypted_order : {[len |-> MIN_ORDER_LEN - 1], [len |-> MIN_ORDER_LEN],
                        [len |-> MAX_ORDER_LEN + 1]},
     client_pubkey : {"x1"}, nonce : {"o1"}]
ExecuteSwapCallbackCalls ==
    [swap_order : Keys \X ComputationIds, order_book : Keys, owner : Keys,
     cluster_authority : Keys, encrypted_result : {[len |-> MIN_ORDER_LEN]},
     result_nonce : {"o2"}, output_amount : {1}]

NextConfidential ==
    \/ \E c \in InitOrderBookCalls : InitOrderBook(c)
    \/ \E c \in SubmitConfidentialSwapCalls : SubmitConfidentialSwap(c)
    \/ \E c \in ExecuteSwapCallbackCalls : ExecuteSwapCallback(c)
    \/ Retire

\* the transactions of the confidential swap program
SpecConfidential == Init /\ [][NextConfidential]_vars

\* C39: an execute_swap_callback signed by a key other than the cluster
\* authority is rejected; the order it names stays as it was, Pending if it
\* was Pending, and no order book's settled_count changes.
C39_OnlyClusterSettles ==
    [][(Processes("execute_swap_callback")
        /\ last'.args.cluster_authority # ClusterAuthority) =>
          /\ last'.res # "Ok"
          /\ swap_order' = swap_order
          /\ \A k \in Keys :
                order_book[k] # NoAccount =>
                    order_book'[k].settled_count = order_book[k].settled_count]_vars

====
